---- MODULE Spec2Model ----
(***************************************************************************)
(* MaxOracle: the statistics engine (services/analytics.py), the          *)
(* recommendation engine (services/recommender.py) and the predictive     *)
(* model (services/ai.py), as state machines.                              *)
(*                                                                         *)
(* Python lists are sequences, Counters are records [keys, cnt] that keep  *)
(* the insertion order of their keys (most_common is a stable sort by      *)
(* count), None is the integer -1 where the slot otherwise holds a         *)
(* natural number.  Floating point values are fixed-point integers with    *)
(* the scale named at their definition.                                    *)
(***************************************************************************)
EXTENDS Integers, Sequences, FiniteSets, TLC

VARIABLES
    mode,             \* which entry point the behaviour exercises
    pc,               \* position of the running call
    draws,            \* the input list of Draw records
    rolling_window,   \* compute_analysis: rolling_window argument
    seed,             \* seed argument (None when absent)
    lang,             \* lang argument
    count,            \* generate: count argument
    engine,           \* the fields of the RecommendationEngine instance
    rng,              \* state of engine.random
    attempts,         \* generate: attempts
    recommendations,  \* generate / build_recommendations: the list being built
    selection,        \* _build_candidate: selection
    pool,             \* _build_candidate: pool
    result,           \* the value returned by the finished call
    raised,           \* name of the exception that ended the call, or "none"
    call,             \* build_recommendations: 1 in the first call, 2 to 4 in a call that follows it
    first_result,     \* build_recommendations: the value the first call returned
    trial,            \* iterations done of the running sampling loop
    best,             \* best_ticket, its distance or score, and the state of rng
    feat_stats,       \* _feature_distribution_ticket: (means, stds)
    net,              \* _train_mlp: w1, b1, w2, b2
    epoch,            \* _train_mlp: passes of the outer loop done
    pair_idx,         \* _train_mlp: pairs of the running pass done
    game,             \* the GameConfig of the request or run
    table,            \* the rows of the Draw table
    snapshots,        \* the rows of the two snapshot tables, in insertion order
    requests,         \* the view calls in progress, one record per worker
    ingest,           \* the running or last ingest_draws call
    cache             \* the entries of django.core.cache

buildVars == <<call, first_result, trial, best, feat_stats>>

aiVars == <<net, epoch, pair_idx>>

siteVars == <<game, table, snapshots, requests, ingest, cache>>

vars == <<mode, pc, draws, rolling_window, seed, lang, count, engine, rng,
          attempts, recommendations, selection, pool, result, raised, buildVars, aiVars, siteVars>>

-----------------------------------------------------------------------------
(* Bounds of the model *)

MaxDraws == 2        \* longest input list of compute_analysis
MaxDate == 2         \* dates are the day numbers 1..MaxDate
PoolSize == 4        \* number of distinct tickets the draws are taken from
MaxWindow == 2       \* rolling_window ranges over 1..MaxWindow
MaxCount == 2        \* generate: count ranges over 0..MaxCount
NumSeeds == 2        \* the seeds are 1..NumSeeds
NumEntropy == 2      \* number of states an unseeded generator can start in
RngBits == 8         \* the generator has 2^RngBits states

(* Program constants *)

MaxNumber == 50      \* range(1, 51)
MainCount == 7       \* total_draws * 7, while len(selection) < 7
SmallThreshold == 25 \* n <= 25
HotCount == 10       \* hot / cold lists keep 10 numbers
SumBinSize == 10
SpanBinSize == 5
RollingTop == 5      \* most_common(5)
AttemptsPerCount == 300    \* attempts < count * 300
MaxSimilarityTenths == 4   \* max_similarity = 0.4

None == 0 - 1

Numbers == 1..MaxNumber

-----------------------------------------------------------------------------
(* Lists *)

\* list(...) of a comprehension: the elements are computed once
List(s) == s \o <<>>

\* Call by value, as Python evaluates its arguments: F of the value of v, and
\* F of the values of v and w; the arguments are computed once
Apply(F(_), v) == CHOOSE r \in {F(x) : x \in {v}} : TRUE

Apply2(F(_, _), v, w) == CHOOSE r \in {F(x, y) : x \in {v}, y \in {w}} : TRUE

Range(s) == Apply(LAMBDA t : {t[i] : i \in DOMAIN t}, s)

RECURSIVE SumOf(_)
SumOf(s) ==
    IF Len(s) = 0 THEN 0
    ELSE IF Len(s) = 1 THEN s[1]
    ELSE Apply2(LAMBDA a, b : SumOf(a) + SumOf(b),
                SubSeq(s, 1, Len(s) \div 2), SubSeq(s, Len(s) \div 2 + 1, Len(s)))

\* sum(s)
SumSeq(s) == Apply(LAMBDA t : SumOf(t), List(s))

Min(S) == CHOOSE x \in S : \A y \in S : x <= y
Max(S) == CHOOSE x \in S : \A y \in S : x >= y
Abs(x) == IF x < 0 THEN 0 - x ELSE x
Maximum(a, b) == IF a >= b THEN a ELSE b
Minimum(a, b) == IF a <= b THEN a ELSE b

\* Number of positions of s that satisfy Test
CountIf(s, Test(_)) == Apply(LAMBDA t : Cardinality({i \in DOMAIN t : Test(t[i])}), s)

\* Python's sorted() on a list of integers (insertion sort, stable)
RECURSIVE InsertSorted(_, _)
InsertSorted(s, x) ==
    IF s = <<>> THEN <<x>>
    ELSE IF x < Head(s) THEN <<x>> \o s
    ELSE <<Head(s)>> \o InsertSorted(Tail(s), x)

RECURSIVE SortedOf(_)
SortedOf(s) ==
    IF s = <<>> THEN <<>>
    ELSE Apply(LAMBDA t : InsertSorted(t, s[Len(s)]), SortedOf(SubSeq(s, 1, Len(s) - 1)))

Sorted(s) == Apply(LAMBDA t : SortedOf(t), List(s))

\* sorted(a set of integers)
RECURSIVE SortedSet(_)
SortedSet(S) == IF S = {} THEN <<>> ELSE Apply(LAMBDA m : <<m>> \o SortedSet(S \ {m}), Min(S))

\* seq[:n]
Take(s, n) == Apply(LAMBDA t : SubSeq(t, 1, Minimum(n, Len(t))), s)

\* Order of the positions of a list of keys under sorted(..., reverse=True)[:n]:
\* stable, so equal keys keep their order. A position comes after every position
\* of a larger key and after the earlier positions of an equal key.
RankOrder(rank, n) ==
    List([r \in 1..Minimum(Maximum(n, 0), Len(rank)) |-> CHOOSE i \in DOMAIN rank : rank[i] = r - 1])

Ranks(keys) ==
    List([i \in DOMAIN keys |->
             Cardinality({j \in DOMAIN keys : keys[j] > keys[i] \/ (keys[j] = keys[i] /\ j < i)})])

DescOrder(keys, n) == Apply2(LAMBDA k, m : Apply(LAMBDA rank : RankOrder(rank, m), Ranks(k)), List(keys), n)

Project(s, order) == Apply2(LAMBDA t, o : List([j \in DOMAIN o |-> t[o[j]]]), s, order)

\* sorted(s, key=Key, reverse=True)[:n]
TopDesc(s, Key(_), n) ==
    Apply(LAMBDA t : Project(t, DescOrder([i \in DOMAIN t |-> Key(t[i])], n)), s)

\* sorted(s, key=Key, reverse=True)
SortedDesc(s, Key(_)) == Apply(LAMBDA t : TopDesc(t, Key, Len(t)), s)

-----------------------------------------------------------------------------
(* collections.Counter: keys in insertion order, cnt the count of each key *)

EmptyCounter == [keys |-> <<>>, cnt |-> <<>>]

CounterGet(c, k) ==
    Apply2(LAMBDA u, key :
               IF \E i \in DOMAIN u.keys : u.keys[i] = key
               THEN u.cnt[CHOOSE i \in DOMAIN u.keys : u.keys[i] = key]
               ELSE 0,
           c, k)

\* The positions of a set of positions, ascending
Ascending(S) == SortedSet(S)

\* Variant: counts[key] = occurrences instead of counts[key] += occurrences
Counted_Overwrite(c, s, keys) ==
    [keys |-> keys,
     cnt |-> List([k \in DOMAIN keys |->
                 IF \E i \in DOMAIN s : s[i] = keys[k]
                 THEN Cardinality({i \in DOMAIN s : s[i] = keys[k]})
                 ELSE c.cnt[k]])]

\* The counter with the keys `keys`: every count of c grown by the occurrences in s
Counted(c, s, keys) ==
    [keys |-> keys,
     cnt |-> List([k \in DOMAIN keys |->
                 (IF k <= Len(c.keys) THEN c.cnt[k] ELSE 0)
                 + Cardinality({i \in DOMAIN s : s[i] = keys[k]})])]

\* The keys s adds to c, in the order of their first occurrence in s
NewKeys(c, s) ==
    Project(s, Ascending({i \in DOMAIN s : /\ \A k \in DOMAIN c.keys : c.keys[k] # s[i]
                                           /\ \A j \in 1..(i - 1) : s[j] # s[i]}))

\* Counter.update(iterable): the new keys are appended in the order of their
\* first occurrence in s, every count grows by the occurrences in s
CounterUpdate(c, s) ==
    Apply2(LAMBDA u, t : Apply(LAMBDA keys : Counted(u, t, keys), u.keys \o NewKeys(u, t)), c, List(s))

\* Counter.items(): (key, count) pairs in insertion order
CounterItems(c) == Apply(LAMBDA u : List([i \in DOMAIN u.keys |-> <<u.keys[i], u.cnt[i]>>]), c)

ItemCount(item) == item[2]

\* Counter.most_common(n): the n largest counts, ties in insertion order
MostCommon(c, n) == TopDesc(CounterItems(c), ItemCount, n)

-----------------------------------------------------------------------------
(* The Draw records *)

\* The tickets the stored draws are taken from (numbers ascending, as ingested)
Tickets ==
    << <<1, 2, 3, 4, 5, 6, 7>>,
       <<5, 12, 19, 26, 33, 40, 47>>,
       <<3, 8, 17, 24, 31, 42, 50>>,
       <<10, 11, 12, 13, 14, 15, 16>>,
       <<2, 9, 21, 28, 36, 44, 49>>,
       <<4, 8, 15, 23, 30, 38, 50>> >>

Bonuses == <<8, 1, 9, 17, 50, 7>>

TicketIds == 1..Minimum(PoolSize, Len(Tickets))

Draw(d, t) == [date |-> d, numbers |-> Tickets[t], bonus |-> Bonuses[t]]

\* date.isoformat()
IsoFormat(d) == <<"iso", d>>

-----------------------------------------------------------------------------
(* services/analytics.py *)

\* The stored draws of the game, Draw.objects.all().order_by('-date'): one draw
\* per date, the newest first
Store == [i \in TicketIds |-> Draw(Cardinality(TicketIds) + 1 - i, i)]

\* get_draws(window, start_date, end_date); None (or 0) means "no filter"
get_draws(window, start_date, end_date) ==
    LET qs == Store
        from == IF start_date # None /\ start_date # 0
                THEN SelectSeq(qs, LAMBDA d : d.date >= start_date) ELSE qs
        upto == IF end_date # None /\ end_date # 0
                THEN SelectSeq(from, LAMBDA d : d.date <= end_date) ELSE from
    IN  IF window # None /\ window # 0 THEN Take(upto, window) ELSE upto

IsOdd(n) == n % 2 = 1
IsSmall(n) == n <= SmallThreshold

\* any(b - a == 1 for a, b in zip(numbers, numbers[1:]))
HasConsecutive(numbers) == \E i \in 1..(Len(numbers) - 1) : numbers[i + 1] - numbers[i] = 1

\* round(num / den, digits) as an integer number of 10^-digits (half to even)
Round(num, den, digits) ==
    LET scaled == num * (10 ^ digits)
        q == scaled \div den
        r == scaled % den
    IN  IF 2 * r < den THEN q
        ELSE IF 2 * r > den THEN q + 1
        ELSE IF q % 2 = 0 THEN q ELSE q + 1

\* Variant: main_counts.update(numbers + [draw.bonus])
RECURSIVE AnalysisMainCounts_WithBonus(_, _)
AnalysisMainCounts_WithBonus(ds, k) ==
    IF k = 0 THEN EmptyCounter
    ELSE Apply(LAMBDA c : CounterUpdate(c, Sorted(ds[k].numbers) \o <<ds[k].bonus>>),
               AnalysisMainCounts_WithBonus(ds, k - 1))

\* main_counts after the loop of compute_analysis over the first k draws
RECURSIVE AnalysisMainCounts(_, _)
AnalysisMainCounts(ds, k) ==
    IF k = 0 THEN EmptyCounter
    ELSE Apply(LAMBDA c : CounterUpdate(c, Sorted(ds[k].numbers)), AnalysisMainCounts(ds, k - 1))

\* bonus_counts after the loop of compute_analysis
BonusCounts(ds) == CounterUpdate(EmptyCounter, [i \in DOMAIN ds |-> ds[i].bonus])

\* Variant: latest_index[number] = idx without the test `is None`
RECURSIVE LatestIndex_Overwrite(_, _)
LatestIndex_Overwrite(ds, k) ==
    IF k = 0 THEN [n \in Numbers |-> None]
    ELSE [n \in Numbers |->
             IF n \in Range(ds[k].numbers) THEN k - 1 ELSE LatestIndex_Overwrite(ds, k - 1)[n]]

\* latest_index of _compute_omissions after the first k draws (idx = k - 1)
RECURSIVE LatestIndex(_, _)
LatestIndex(ds, k) ==
    IF k = 0 THEN [n \in Numbers |-> None]
    ELSE LET prev == LatestIndex(ds, k - 1)
         IN  [n \in Numbers |->
                 IF prev[n] = None /\ n \in Range(ds[k].numbers) THEN k - 1 ELSE prev[n]]

_compute_omissions(ds) ==
    LET latest_index == LatestIndex(ds, Len(ds))
    IN  [num \in Numbers |->
            [number |-> num,
             omission |-> IF latest_index[num] # None THEN latest_index[num] ELSE Len(ds)]]

\* itertools.combinations(s, size), in its lexicographic order of positions
RECURSIVE Combinations(_, _)
Combinations(s, size) ==
    IF size = 0 THEN << <<>> >>
    ELSE IF Len(s) < size THEN <<>>
    ELSE Apply(LAMBDA with : [i \in DOMAIN with |-> <<Head(s)>> \o with[i]],
               Combinations(Tail(s), size - 1))
         \o Combinations(Tail(s), size)

\* counter of _compute_combinations / _top_pairs after the first k draws
RECURSIVE ComboCounts(_, _, _)
ComboCounts(ds, size, k) ==
    IF k = 0 THEN EmptyCounter
    ELSE Apply2(LAMBDA c, t : CounterUpdate(c, Combinations(t, size)),
                ComboCounts(ds, size, k - 1), Sorted(ds[k].numbers))

_compute_combinations(ds, size, top_n) ==
    LET top == MostCommon(ComboCounts(ds, size, Len(ds)), top_n)
    IN  [i \in DOMAIN top |-> [numbers |-> top[i][1], count |-> top[i][2]]]

\* range(first, stop, step) for a positive step
PyRange(first, stop, step) ==
    IF stop <= first THEN <<>>
    ELSE [i \in 1..(((stop - first) + step - 1) \div step) |-> first + (i - 1) * step]

_build_histogram(values, bin_size) ==
    IF values = <<>> THEN <<>>
    ELSE LET min_value == Min(Range(values))
             max_value == Max(Range(values))
             bins == PyRange(min_value - (min_value % bin_size), max_value + bin_size, bin_size)
             counts == CounterUpdate(EmptyCounter,
                           [i \in DOMAIN values |-> (values[i] \div bin_size) * bin_size])
         IN  [i \in DOMAIN bins |-> [bin_start |-> bins[i], count |-> CounterGet(counts, bins[i])]]

\* sorted(draws, key=lambda d: d.date): stable, ascending
SortedByDate(ds) ==
    Project(ds, DescOrder([i \in DOMAIN ds |-> 0 - ds[i].date], Len(ds)))

\* Variant: draws.sort(key=lambda d: d.date) orders the caller's list in place
InputAfterSorted_InPlace(ds) == SortedByDate(ds)

\* The caller's list after sorted(draws, key=lambda d: d.date): sorted() builds a
\* new list and leaves its argument as it was
InputAfterSorted(ds) == ds

\* main_counts of _compute_rolling_series after the first k draws
RECURSIVE RollingMainCounts(_, _)
RollingMainCounts(ds, k) ==
    IF k = 0 THEN EmptyCounter
    ELSE CounterUpdate(RollingMainCounts(ds, k - 1), ds[k].numbers)

\* Variant: prefix[num] holds the indicator of each draw, not the running count
RECURSIVE Prefix_NoCarry(_, _, _)
Prefix_NoCarry(chrono, num, idx) ==
    IF idx = 0 THEN 0
    ELSE IF num \in Range(chrono[idx].numbers) THEN 1 ELSE 0

\* prefix[num][idx] of _compute_rolling_series, idx counted from 1
RECURSIVE Prefix(_, _, _)
Prefix(chrono, num, idx) ==
    IF idx = 0 THEN 0
    ELSE Prefix(chrono, num, idx - 1) + (IF num \in Range(chrono[idx].numbers) THEN 1 ELSE 0)

\* A data point window_total / max(window, 1) is kept as the fraction <<num, den>>
_compute_rolling_series(ds, window) ==
    IF ds = <<>> THEN [labels |-> <<>>, series |-> <<>>]
    ELSE LET chrono_draws == SortedByDate(ds)
             top == MostCommon(RollingMainCounts(ds, Len(ds)), RollingTop)
             top_numbers == [i \in DOMAIN top |-> top[i][1]]
             prefix == [i \in DOMAIN top_numbers |->
                           [idx \in DOMAIN chrono_draws |-> Prefix(chrono_draws, top_numbers[i], idx)]]
             \* idx is the 0-based position of the code, start_idx = idx - window
             Point(i, idx) ==
                 LET start_idx == idx - window
                     window_total == prefix[i][idx + 1]
                                     - (IF start_idx >= 0 THEN prefix[i][start_idx + 1] ELSE 0)
                 IN  <<window_total, Maximum(window, 1)>>
         IN  [labels |-> [i \in DOMAIN chrono_draws |-> IsoFormat(chrono_draws[i].date)],
              series |-> [i \in DOMAIN top_numbers |->
                             [number |-> top_numbers[i],
                              values |-> [j \in DOMAIN chrono_draws |-> Point(i, j - 1)]]]]

\* meta['latest_draw']: draws[0].date.isoformat() if draws else None (None is <<>>)
LatestDraw(ds) == IF ds # <<>> THEN IsoFormat(ds[1].date) ELSE <<>>

\* Variant: latest_draw is draws[0].date.isoformat() with no test of draws
compute_analysis_raises_Unguarded(ds) ==
    IF ds = <<>> \/ \E i \in DOMAIN ds : ds[i].numbers = <<>> THEN "IndexError"
    ELSE IF \E i \in DOMAIN ds : ~(Range(ds[i].numbers) \subseteq Numbers) THEN "KeyError"
    ELSE "none"

\* The exception compute_analysis ends with, "none" when it returns:
\* numbers[-1] of an empty list, latest_index[number] of a number outside 1..50
compute_analysis_raises(ds) ==
    IF \E i \in DOMAIN ds : ds[i].numbers = <<>> THEN "IndexError"
    ELSE IF \E i \in DOMAIN ds : ~(Range(ds[i].numbers) \subseteq Numbers) THEN "KeyError"
    ELSE "none"

\* The AnalysisResult built from the values of the locals after the loop
AnalysisResult(ds, window, numbers, main_counts, bonus_counts, omissions) ==
    LET total_draws == Len(ds)
        sums == [i \in DOMAIN ds |-> SumSeq(numbers[i])]
        spans == [i \in DOMAIN ds |-> numbers[i][Len(numbers[i])] - numbers[i][1]]
        odd_even_counts == CounterUpdate(EmptyCounter, [i \in DOMAIN ds |-> CountIf(numbers[i], IsOdd)])
        size_counts == CounterUpdate(EmptyCounter, [i \in DOMAIN ds |-> CountIf(numbers[i], IsSmall)])
        consecutive_hits == Cardinality({i \in DOMAIN ds : HasConsecutive(numbers[i])})
        total_main_numbers == IF total_draws # 0 THEN total_draws * MainCount ELSE 1
    IN  [meta |-> [total_draws |-> total_draws,
                   latest_draw |-> LatestDraw(ds),
                   window |-> total_draws,
                   rolling_window |-> window],
         main_frequency |-> [num \in Numbers |->
             [number |-> num,
              count |-> CounterGet(main_counts, num),
              probability |-> Round(CounterGet(main_counts, num), total_main_numbers, 6)]],
         bonus_frequency |-> [num \in Numbers |->
             [number |-> num,
              count |-> CounterGet(bonus_counts, num),
              probability |-> Round(CounterGet(bonus_counts, num), Maximum(total_draws, 1), 6)]],
         omissions |-> omissions,
         hot_numbers |-> TopDesc(CounterItems(main_counts), ItemCount, HotCount),
         cold_numbers |-> TopDesc(omissions, LAMBDA item : item.omission, HotCount),
         pair_frequency |-> _compute_combinations(ds, 2, 15),
         triplet_frequency |-> _compute_combinations(ds, 3, 15),
         odd_even_distribution |-> [i \in 1..(MainCount + 1) |->
             [odd_count |-> i - 1, count |-> CounterGet(odd_even_counts, i - 1)]],
         size_distribution |-> [i \in 1..(MainCount + 1) |->
             [small_count |-> i - 1, count |-> CounterGet(size_counts, i - 1)]],
         sum_distribution |-> _build_histogram(sums, SumBinSize),
         span_distribution |-> _build_histogram(spans, SpanBinSize),
         consecutive_ratio |-> [ratio |-> Round(consecutive_hits, Maximum(total_draws, 1), 4),
                                count |-> consecutive_hits,
                                total |-> total_draws],
         rolling_series |-> _compute_rolling_series(ds, window)]

compute_analysis(ds, window) ==
    AnalysisResult(ds, window,
                   [i \in DOMAIN ds |-> Sorted(ds[i].numbers)],
                   AnalysisMainCounts(ds, Len(ds)),
                   BonusCounts(ds),
                   _compute_omissions(ds))

-----------------------------------------------------------------------------
(* Inputs *)

\* Draw records of the game: any ticket on any date
DrawRecords == {Draw(d, t) : d \in 1..MaxDate, t \in TicketIds}

\* Lists of draws with one draw per date (uniq_game_date), in any order
DrawLists ==
    UNION {{ds \in [1..k -> DrawRecords] :
               \A i, j \in 1..k : i # j => ds[i].date # ds[j].date} : k \in 0..MaxDraws}

NoResult == [none |-> TRUE]
NoEngine == [none |-> TRUE]
NoLoop == [none |-> TRUE]
NoNet == [none |-> TRUE]

AiIdle == net = NoNet /\ epoch = 0 /\ pair_idx = 0

\* get_game_config: main_count and max_number default to 7 and 50
DefaultGame == [key |-> "max", main_count |-> 7, max_number |-> 50]

NoIngest == [none |-> TRUE]

SiteIdle ==
    /\ game = DefaultGame /\ table = {} /\ snapshots = <<>>
    /\ requests = <<>> /\ ingest = NoIngest /\ cache = {}

BuildIdle ==
    /\ call = 1 /\ first_result = NoResult
    /\ trial = 0 /\ best = NoLoop /\ feat_stats = <<>>

\* The variables a call does not use
Idle ==
    /\ seed = None /\ lang = "zh" /\ count = 0
    /\ engine = NoEngine /\ rng = 0 /\ attempts = 0
    /\ recommendations = <<>> /\ selection = {} /\ pool = <<>>
    /\ result = NoResult /\ raised = "none"
    /\ BuildIdle
    /\ AiIdle
    /\ SiteIdle

-----------------------------------------------------------------------------
(* compute_analysis(draws, rolling_window) *)

InitAnalysis ==
    /\ mode = "analysis"
    /\ pc = "call"
    /\ draws \in DrawLists
    /\ rolling_window \in 1..MaxWindow
    /\ Idle

ComputeAnalysis ==
    /\ mode = "analysis"
    /\ pc = "call"
    /\ raised' = compute_analysis_raises(draws)
    /\ result' = IF raised' = "none" THEN compute_analysis(draws, rolling_window) ELSE NoResult
    /\ draws' = InputAfterSorted(draws)
    /\ pc' = "done"
    /\ UNCHANGED <<siteVars, aiVars, buildVars, mode, rolling_window, seed, lang, count, engine, rng,
                   attempts, recommendations, selection, pool>>

SpecAnalysis == InitAnalysis /\ [][ComputeAnalysis]_vars

-----------------------------------------------------------------------------
(* random.Random: a linear congruential generator over 2^RngBits states      *)
(* stands for the Mersenne Twister; every use advances the state by one.     *)

RngMod == 2 ^ RngBits

RngNext(x) == (x * 37 + 11) % RngMod

\* random.Random(seed) for a seed that is not None
SeededState(s) == (s * 101 + 7) % RngMod

\* random.Random() and random.Random(None): seeded from the system's entropy
EntropyStates == {(e * 89 + 5) % RngMod : e \in 1..NumEntropy}

\* Random._randbelow(n) on the state reached by the step
RandBelow(x, n) == (x * n) \div RngMod

\* Random.sample(population, k), len(population) <= setsize: the pool branch.
\* The value is <<result, state of the generator>>.
RECURSIVE SampleFrom(_, _, _, _)
SampleFrom(x, pl, k, picked) ==
    IF k = 0 THEN <<picked, x>>
    ELSE Apply(LAMBDA j :
                   Apply2(LAMBDA rest, taken : SampleFrom(RngNext(x), rest, k - 1, taken),
                          SubSeq([pl EXCEPT ![j] = pl[Len(pl)]], 1, Len(pl) - 1),
                          Append(picked, pl[j])),
               RandBelow(RngNext(x), Len(pl)) + 1)

Sample(x, population, k) ==
    Apply2(LAMBDA x0, pl : SampleFrom(x0, pl, k, <<>>), x, List(population))

\* Random.choice(seq) for a non-empty seq: <<element, state of the generator>>
Choice(x, s) ==
    Apply2(LAMBDA x1, t : <<t[RandBelow(x1, Len(t)) + 1], x1>>, RngNext(x), s)

-----------------------------------------------------------------------------
(* services/recommender.py: RecommendationEngine *)

_lang_text(l, zh, en) == IF l = "en" THEN en ELSE zh

\* jaccard(a, b) as the fraction <<len(a & b), max(len(a | b), 1)>>
jaccard(a, b) == <<Cardinality(a \cap b), Maximum(Cardinality(a \cup b), 1)>>

\* Variant: max_similarity = 0.6
ExceedsSimilarity_Loose(j, tenths) == j[1] * 10 > (tenths + 2) * j[2]

\* jaccard(...) > max_similarity, max_similarity given in tenths
ExceedsSimilarity(j, tenths) == j[1] * 10 > tenths * j[2]

\* self.main_counts after the loop of __init__ over the first k draws
RECURSIVE EngineMainCounts(_, _)
EngineMainCounts(ds, k) ==
    IF k = 0 THEN EmptyCounter
    ELSE Apply(LAMBDA c : CounterUpdate(c, ds[k].numbers), EngineMainCounts(ds, k - 1))

Keys(items) == Apply(LAMBDA t : List([i \in DOMAIN t |-> t[i][1]]), items)

_mode(values) ==
    IF values = <<>> THEN 3
    ELSE MostCommon(CounterUpdate(EmptyCounter, values), 1)[1][1]

\* int(len * low), int(len * high) - 1 for low = 0.25, high = 0.75
_percentile_range(values) ==
    LET sorted_values == Sorted(values)
        low_idx == Len(sorted_values) \div 4
        high_idx == ((Len(sorted_values) * 3) \div 4) - 1
    IN  IF sorted_values = <<>> THEN <<60, 240>>
        ELSE <<sorted_values[Maximum(low_idx, 0) + 1], sorted_values[Maximum(high_idx, 0) + 1]>>

_top_pairs(ds, top_n) == Keys(MostCommon(ComboCounts(ds, 2, Len(ds)), top_n))

HotDefault == [i \in 1..10 |-> i]
ColdDefault == [i \in 1..10 |-> 40 + i]

EngineFields(ds, main_counts, hot, cold) ==
    LET hot_numbers == IF hot = <<>> THEN HotDefault ELSE hot
        cold_numbers == IF cold = <<>> THEN ColdDefault ELSE cold
        odd_counts == [i \in DOMAIN ds |-> CountIf(ds[i].numbers, IsOdd)]
        size_counts == [i \in DOMAIN ds |-> CountIf(ds[i].numbers, IsSmall)]
        sums == [i \in DOMAIN ds |-> SumSeq(ds[i].numbers)]
    IN  [main_counts |-> main_counts,
         hot_numbers |-> hot_numbers,
         cold_numbers |-> cold_numbers,
         neutral_pool |-> SelectSeq([n \in Numbers |-> n],
                              LAMBDA n : n \notin (Range(hot_numbers) \cup Range(cold_numbers))),
         target_odd |-> IF odd_counts # <<>> THEN _mode(odd_counts) ELSE 3,
         target_small |-> IF size_counts # <<>> THEN _mode(size_counts) ELSE 3,
         sum_range |-> IF sums # <<>> THEN _percentile_range(sums) ELSE <<60, 240>>,
         common_pairs |-> _top_pairs(ds, 15)]

NumbersOf(items) == Apply(LAMBDA t : List([i \in DOMAIN t |-> t[i].number]), items)

\* RecommendationEngine.__init__: the fields of the new instance
EngineOf(ds, main_counts) ==
    Apply2(LAMBDA hot, cold : EngineFields(ds, main_counts, hot, cold),
           Keys(MostCommon(main_counts, HotCount)),
           NumbersOf(TopDesc(_compute_omissions(ds), LAMBDA item : item.omission, HotCount)))

RecommendationEngine(ds) == Apply(LAMBDA c : EngineOf(ds, c), EngineMainCounts(ds, Len(ds)))

\* The exception __init__ ends with: latest_index[number] of _compute_omissions
EngineRaises(ds) ==
    IF \E i \in DOMAIN ds : ~(Range(ds[i].numbers) \subseteq Numbers) THEN "KeyError" ELSE "none"

\* selection.update(picked) for a <<picked, state of self.random>>
Update(sel, picked) == Apply(LAMBDA p : <<sel \cup Range(p[1]), p[2]>>, picked)

\* The stages of _build_candidate carry <<selection, state of self.random>>
AddHot(e, st) ==
    LET hot_pick == Minimum(3, Len(e.hot_numbers))
    IN  IF hot_pick # 0 THEN Update(st[1], Sample(st[2], e.hot_numbers, hot_pick)) ELSE st

ColdCandidates(e, sel) == SelectSeq(e.cold_numbers, LAMBDA n : n \notin sel)

AddColdFrom(e, st, cold_candidates) ==
    LET cold_pick == Minimum(2, Len(e.cold_numbers))
    IN  IF cold_pick # 0 /\ Len(cold_candidates) >= cold_pick
        THEN Update(st[1], Sample(st[2], cold_candidates, cold_pick)) ELSE st

AddCold(e, st) == Apply(LAMBDA cold_candidates : AddColdFrom(e, st, cold_candidates), ColdCandidates(e, st[1]))

AddPair(e, st) ==
    IF e.common_pairs # <<>> THEN Update(st[1], Choice(st[2], e.common_pairs)) ELSE st

PoolOf(sel) == SelectSeq([n \in Numbers |-> n], LAMBDA n : n \notin sel)

WithPool(st) == <<st[1], List(PoolOf(st[1])), st[2]>>

\* _build_candidate up to the pool: <<selection, pool, state of self.random>>
CandidateStart(e, x) ==
    Apply(WithPool,
          Apply(LAMBDA st : AddPair(e, st),
                Apply(LAMBDA st : AddCold(e, st), AddHot(e, <<{}, x>>))))

\* Variant: the sum is not tested
_passes_constraints_AnySum(e, numbers) ==
    LET odd_count == CountIf(numbers, IsOdd)
        small_count == CountIf(numbers, IsSmall)
        hot_count == CountIf(numbers, LAMBDA n : n \in Range(e.hot_numbers))
        cold_count == CountIf(numbers, LAMBDA n : n \in Range(e.cold_numbers))
    IN  IF Abs(odd_count - e.target_odd) > 2 THEN FALSE
        ELSE IF Abs(small_count - e.target_small) > 2 THEN FALSE
        ELSE IF e.hot_numbers # <<>> /\ hot_count < 1 THEN FALSE
        ELSE IF e.cold_numbers # <<>> /\ cold_count < 1 THEN FALSE
        ELSE TRUE

_passes_constraints(e, numbers) ==
    LET odd_count == CountIf(numbers, IsOdd)
        small_count == CountIf(numbers, IsSmall)
        total_sum == SumSeq(numbers)
        hot_count == CountIf(numbers, LAMBDA n : n \in Range(e.hot_numbers))
        cold_count == CountIf(numbers, LAMBDA n : n \in Range(e.cold_numbers))
    IN  IF Abs(odd_count - e.target_odd) > 2 THEN FALSE
        ELSE IF Abs(small_count - e.target_small) > 2 THEN FALSE
        ELSE IF ~(e.sum_range[1] <= total_sum /\ total_sum <= e.sum_range[2]) THEN FALSE
        ELSE IF e.hot_numbers # <<>> /\ hot_count < 1 THEN FALSE
        ELSE IF e.cold_numbers # <<>> /\ cold_count < 1 THEN FALSE
        ELSE TRUE

\* The texts a Recommendation gets when the caller passes none
DefaultLabel(l) == _lang_text(l, <<"zh", "BalancedLabel">>, <<"en", "BalancedLabel">>)
DefaultSummary(l) == _lang_text(l, <<"zh", "BalancedSummary">>, <<"en", "BalancedSummary">>)
DefaultExplanation(e, l, odd, small, total, hot, cold, boost) ==
    << _lang_text(l, <<"zh", "balance", hot, cold>>, <<"en", "balance", hot, cold>>),
       _lang_text(l, <<"zh", "oddeven", odd, MainCount - odd>>, <<"en", "oddeven", odd, MainCount - odd>>),
       _lang_text(l, <<"zh", "lowhigh", small, MainCount - small>>, <<"en", "lowhigh", small, MainCount - small>>),
       _lang_text(l, <<"zh", "sum", total, e.sum_range>>, <<"en", "sum", total, e.sum_range>>) >>
    \o (IF boost # 0 THEN << _lang_text(l, <<"zh", "pairs">>, <<"en", "pairs">>) >> ELSE <<>>)

NoText == <<>>

\* _build_recommendation(numbers, algorithm, algorithm_label, summary, explanation);
\* NoText stands for an argument that is None
_build_recommendation(e, l0, numbers, algorithm, algorithm_label, summary, explanation) ==
    LET l == IF l0 = "en" THEN "en" ELSE "zh"
        odd_count == CountIf(numbers, IsOdd)
        small_count == CountIf(numbers, IsSmall)
        total_sum == SumSeq(numbers)
        hot_count == CountIf(numbers, LAMBDA n : n \in Range(e.hot_numbers))
        cold_count == CountIf(numbers, LAMBDA n : n \in Range(e.cold_numbers))
        pair_boost == CountIf(e.common_pairs, LAMBDA pair : Range(pair) \subseteq Range(numbers))
    IN  [numbers |-> numbers,
         odd_count |-> odd_count,
         even_count |-> MainCount - odd_count,
         small_count |-> small_count,
         large_count |-> MainCount - small_count,
         total_sum |-> total_sum,
         hot_count |-> hot_count,
         cold_count |-> cold_count,
         pair_boost |-> pair_boost,
         explanation |-> IF explanation = NoText
                         THEN DefaultExplanation(e, l, odd_count, small_count, total_sum,
                                                 hot_count, cold_count, pair_boost)
                         ELSE explanation,
         algorithm |-> algorithm,
         algorithm_label |-> IF algorithm_label = NoText THEN DefaultLabel(l) ELSE algorithm_label,
         algorithm_summary |-> IF summary = NoText THEN DefaultSummary(l) ELSE summary]

\* any(jaccard(set(numbers), set(rec.numbers)) > max_similarity for rec in recommendations)
TooSimilar(numbers, recs) ==
    \E i \in DOMAIN recs :
        ExceedsSimilarity(jaccard(Range(numbers), Range(recs[i].numbers)), MaxSimilarityTenths)

-----------------------------------------------------------------------------
(* RecommendationEngine(draws, seed).generate(count) *)

Dates == {None} \cup (1..Cardinality(TicketIds))

\* The lists get_draws can deliver
StoreLists == {get_draws(w, s, e) : w \in Dates \cup {0}, s \in Dates, e \in Dates}

Seeds == 1..NumSeeds

InitGenerate ==
    /\ mode = "generate"
    /\ pc = "new"
    /\ draws \in StoreLists
    /\ seed \in Seeds \cup {None}
    /\ count \in 0..MaxCount
    /\ rolling_window = 0 /\ lang = "zh"
    /\ engine = NoEngine /\ rng = 0 /\ attempts = 0
    /\ recommendations = <<>> /\ selection = {} /\ pool = <<>>
    /\ result = <<>> /\ raised = "none"    \* no ticket returned yet: a list, as every value of result here
    /\ BuildIdle
    /\ AiIdle
    /\ SiteIdle

\* engine = RecommendationEngine(draws, seed=seed)
Construct ==
    /\ mode = "generate"
    /\ pc = "new"
    /\ raised' = EngineRaises(draws)
    /\ IF raised' = "none"
       THEN /\ engine' = RecommendationEngine(draws)
            /\ rng' \in (IF seed = None THEN EntropyStates ELSE {SeededState(seed)})
            /\ pc' = "loop"
       ELSE /\ pc' = "done"
            /\ UNCHANGED <<engine, rng>>
    /\ UNCHANGED <<siteVars, aiVars, buildVars, mode, draws, rolling_window, seed, lang, count, attempts,
                   recommendations, selection, pool, result>>

\* Variant: while len(recommendations) < count
LoopCondition_NoCap == Len(recommendations) < count

\* while len(recommendations) < count and attempts < count * 300
LoopCondition == Len(recommendations) < count /\ attempts < count * AttemptsPerCount

\* Variant: while len(selection) < 6
SelectionFull_Six(sel) == Cardinality(sel) >= MainCount - 1

\* The while loop of _build_candidate ends: not len(selection) < 7
SelectionFull(sel) == Cardinality(sel) >= MainCount

\* attempts += 1 and _build_candidate up to its while loop
StartAttempt ==
    /\ mode \in {"generate", "build"}
    /\ pc = "loop"
    /\ LoopCondition
    /\ attempts' = attempts + 1
    /\ LET c == CandidateStart(engine, rng)
       IN  /\ selection' = c[1]
           /\ pool' = c[2]
           /\ rng' = c[3]
    /\ pc' = "fill"
    /\ UNCHANGED <<siteVars, aiVars, buildVars, mode, draws, rolling_window, seed, lang, count, engine,
                   recommendations, result, raised>>

\* One iteration of: while len(selection) < 7: selection.add(self.random.choice(pool))
FillStep ==
    /\ mode \in {"generate", "build"}
    /\ pc = "fill"
    /\ ~SelectionFull(selection)
    /\ IF pool = <<>>
       THEN /\ raised' = "IndexError"
            /\ pc' = "done"
            /\ UNCHANGED <<selection, rng>>
       ELSE /\ selection' = selection \cup {Choice(rng, pool)[1]}
            /\ rng' = Choice(rng, pool)[2]
            /\ UNCHANGED <<pc, raised>>
    /\ UNCHANGED <<siteVars, aiVars, buildVars, mode, draws, rolling_window, seed, lang, count, engine, attempts,
                   recommendations, pool, result>>

\* return sorted(selection)
Candidate == SortedSet(selection)

CandidateBuilt == mode \in {"generate", "build"} /\ pc = "fill" /\ SelectionFull(selection)

NextAttempt ==
    /\ pc' = "loop"
    /\ selection' = {}
    /\ pool' = <<>>
    /\ UNCHANGED <<siteVars, aiVars, buildVars, mode, draws, rolling_window, seed, lang, count, engine, rng, attempts,
                   result, raised>>

\* if not self._passes_constraints(numbers): continue
RejectConstraints ==
    /\ CandidateBuilt
    /\ ~_passes_constraints(engine, Candidate)
    /\ UNCHANGED recommendations
    /\ NextAttempt

\* if any(jaccard(...) > max_similarity ...): continue
RejectSimilar ==
    /\ CandidateBuilt
    /\ _passes_constraints(engine, Candidate)
    /\ TooSimilar(Candidate, recommendations)
    /\ UNCHANGED recommendations
    /\ NextAttempt

\* recommendations.append(self._build_recommendation(numbers))
Accept ==
    /\ CandidateBuilt
    /\ _passes_constraints(engine, Candidate)
    /\ ~TooSimilar(Candidate, recommendations)
    /\ recommendations' = Append(recommendations,
           _build_recommendation(engine, lang, Candidate, "BalancedHotColdMix", NoText, NoText, NoText))
    /\ NextAttempt

\* return recommendations
Return ==
    /\ mode = "generate"
    /\ pc = "loop"
    /\ ~LoopCondition
    /\ result' = recommendations
    /\ pc' = "done"
    /\ UNCHANGED <<siteVars, aiVars, buildVars, mode, draws, rolling_window, seed, lang, count, engine, rng, attempts,
                   recommendations, selection, pool, raised>>

NextGenerate ==
    \/ Construct
    \/ StartAttempt
    \/ FillStep
    \/ RejectConstraints
    \/ RejectSimilar
    \/ Accept
    \/ Return

Spec == InitGenerate /\ [][NextGenerate]_vars

\* The interpreter runs the call to its end: a step that can be taken is taken
FairSpec == Spec /\ WF_vars(NextGenerate)

-----------------------------------------------------------------------------
(* Fixed-point arithmetic for the floating point values of the strategies *)

\* floor(sqrt(v)) by bisection of lo..hi, lo * lo <= v < (hi + 1) * (hi + 1)
RECURSIVE ISqrtIn(_, _, _)
ISqrtIn(v, lo, hi) ==
    IF lo >= hi THEN lo
    ELSE LET mid == (lo + hi + 1) \div 2
         IN  IF mid * mid <= v THEN ISqrtIn(v, mid, hi) ELSE ISqrtIn(v, lo, mid - 1)

ISqrt(v) == ISqrtIn(v, 0, 46340)

\* The fractional bits of log2(y / 4096) for 4096 <= y < 8192, as a sum of 2^-k * 1024
RECURSIVE Log2Frac(_, _)
Log2Frac(y, bit) ==
    IF bit = 0 THEN 0
    ELSE LET sq == (y * y) \div 4096
         IN  IF sq >= 8192 THEN bit + Log2Frac(sq \div 2, bit \div 2)
             ELSE Log2Frac(sq, bit \div 2)

\* floor(log2(n)) for n >= 1
RECURSIVE Log2Floor(_)
Log2Floor(n) == IF n < 2 THEN 0 ELSE 1 + Log2Floor(n \div 2)

\* math.log(n) for an integer n >= 1, in thousandths
Ln(n) ==
    LET e == Log2Floor(n)
        log2 == e * 1024 + Log2Frac((n * 4096) \div (2 ^ e), 512)
    IN  (log2 * 693) \div 1024

-----------------------------------------------------------------------------
(* The strategies of build_recommendations *)

\* _draw_numbers(draws)
_draw_numbers(ds) == [i \in DOMAIN ds |-> Sorted(SortedByDate(ds)[i].numbers)]

\* Variant: the payload of the digest also holds a count of the calls made so far
_seeded_random_PerCall(s, salt) == (s * 101 + salt * 53 + 29 + call * 17) % RngMod

\* _seeded_random(seed, salt) for a seed that is not None: the first 8 bytes of
\* sha256(seed:salt) seed the generator
_seeded_random(s, salt) == (s * 101 + salt * 53 + 29) % RngMod

SaltAlgorithms == 1
SaltAlg7 == 2

\* The Counter of all numbers of a list of tickets
TicketCounts(tickets) ==
    List([i \in Numbers |-> Cardinality({t \in DOMAIN tickets : i \in Range(tickets[t])})])

\* _dirichlet_probabilities(draws, alpha=1.0): the posterior of number i is
\* weights[i] / denom; the value is the list of the numerators (alpha = 1)
Smoothed(counts) == List([i \in Numbers |-> counts[i] + 1])

_dirichlet_probabilities(tickets) == Smoothed(TicketCounts(tickets))

\* _binomial_z_scores(draws) in 10^-3: z = (50 c - 7 T) / sqrt(301 T)
ZScores(counts, total_draws, root) ==
    List([i \in Numbers |-> ((50 * counts[i] - 7 * total_draws) * 100000) \div root])

_binomial_z_scores(tickets) ==
    ZScores(TicketCounts(tickets), Len(tickets), Maximum(ISqrt(301 * Len(tickets) * 10000), 1))

\* scores of _ewma_scores after the first t draws, in 10^-6, decay = 0.2
EwmaUpdate(prev, counts, denom) ==
    List([i \in Numbers |-> (8 * prev[i] + 2 * (((counts[i] + 1) * 1000000) \div denom)) \div 10])

RECURSIVE EwmaAfter(_, _, _)
EwmaAfter(tickets, window, t) ==
    IF t = 0 THEN [i \in Numbers |-> 1000000 \div MaxNumber]
    ELSE EwmaUpdate(EwmaAfter(tickets, window, t - 1),
                    TicketCounts(SubSeq(tickets, Maximum(1, t - window + 1), t)),
                    Minimum(t, window) * MainCount + MaxNumber)

_ewma_scores(tickets, window) == EwmaAfter(tickets, window, Len(tickets))

\* sorted(scores.items(), key=lambda item: item[1], reverse=True)[:k], the numbers
TopByScore(scores, k) == DescOrder(scores, k)

\* -log(u) in thousandths for u = x / RngMod, x >= 1
NegLog(x) == Ln(RngMod) - Ln(x)

\* key(u1, w1) > key(u2, w2) for key = u ** (1.0 / w), w > 0; u = 0 gives key 0,
\* l1 and l2 are -log(u1) and -log(u2)
KeyGreater(x1, l1, w1, x2, l2, w2) ==
    IF x2 = 0 THEN x1 # 0
    ELSE IF x1 = 0 THEN FALSE
    ELSE l1 * w2 < l2 * w1

\* (key, num) of j comes before (key, num) of i after keys.sort(reverse=True)
KeyBefore(j, i, us, logs, weights) ==
    \/ KeyGreater(us[j], logs[j], weights[j], us[i], logs[i], weights[i])
    \/ (~KeyGreater(us[i], logs[i], weights[i], us[j], logs[j], weights[j]) /\ j > i)

FirstKeys(chosen, rank, k) == SortedSet({i \in chosen : rank[i] < k})

KeyRanks(chosen, us, logs, weights) ==
    [i \in Numbers |-> Cardinality({j \in chosen : j # i /\ KeyBefore(j, i, us, logs, weights)})]

\* keys.sort(reverse=True) on the (key, num) tuples, then the first k numbers, sorted
SampleByKeys(weights, k, us, logs) ==
    FirstKeys({i \in Numbers : weights[i] > 0},
              KeyRanks({i \in Numbers : weights[i] > 0}, us, logs, weights), k)

\* The values rng.random() returns for the numbers 1..MaxNumber, as x of u = x / RngMod
RECURSIVE RandomsFrom(_, _)
RandomsFrom(x, n) == IF n = 0 THEN <<>> ELSE <<RngNext(x)>> \o RandomsFrom(RngNext(x), n - 1)

WeightedSampleOf(weights, k, us) ==
    <<SampleByKeys(weights, k, us, List([i \in DOMAIN us |-> IF us[i] = 0 THEN 0 ELSE NegLog(us[i])])),
      us[Len(us)]>>

\* _weighted_sample_without_replacement(weights, k, rng): <<ticket, state of rng>>;
\* every weight is positive, so every number draws one u
_weighted_sample_without_replacement(weights, k, x) ==
    WeightedSampleOf(weights, k, RandomsFrom(x, Cardinality({i \in Numbers : weights[i] > 0})))

\* -p * log(p) in 10^-2 for p = c / 6, the gaps of a ticket of 7 numbers
EntropyTerm == <<30, 37, 35, 27, 15, 0>>

\* _entropy(values) in 10^-2
_entropy(values) ==
    IF values = <<>> THEN 0
    ELSE LET counts == CounterUpdate(EmptyCounter, values)
         IN  SumSeq([i \in DOMAIN counts.cnt |-> EntropyTerm[counts.cnt[i]]])

\* _extract_features(draw) in 10^-2: <<sum, odd, small, consec, gap_entropy>>
_extract_features(draw) ==
    LET sorted_draw == Sorted(draw)
        gaps == [i \in 1..(Len(sorted_draw) - 1) |-> sorted_draw[i + 1] - sorted_draw[i]]
    IN  << 100 * SumSeq(sorted_draw),
           100 * CountIf(sorted_draw, IsOdd),
           100 * CountIf(sorted_draw, IsSmall),
           100 * CountIf(gaps, LAMBDA g : g = 1),
           _entropy(gaps) >>

FeatureKeys == 1..5

\* _feature_stats(features): <<means, stds>> in 10^-2
Means(features, n) ==
    [key \in FeatureKeys |-> SumSeq([i \in DOMAIN features |-> features[i][key]]) \div n]

Stds(features, n, mean) ==
    [key \in FeatureKeys |->
        ISqrt(SumSeq([i \in DOMAIN features |->
                  (features[i][key] - mean[key]) * (features[i][key] - mean[key])]) \div n)]

StatsOf(features, n, mean) == <<mean, Stds(features, n, mean)>>

_feature_stats(features) ==
    IF features = <<>> THEN <<<<>>, <<>>>>
    ELSE StatsOf(features, Len(features), Means(features, Len(features)))

\* distance of _feature_distribution_ticket in 10^-2; std = stds[key] or 1.0
FeatureDistance(f, stats) ==
    SumSeq([key \in DOMAIN stats[1] |->
        IF stats[2][key] = 0 THEN Abs(f[key] - stats[1][key])
        ELSE (Abs(f[key] - stats[1][key]) * 100) \div stats[2][key]])

AllNumbers == [n \in Numbers |-> n]

\* _is_arithmetic_progression(ticket)
_is_arithmetic_progression(ticket) ==
    IF Len(ticket) < 3 THEN FALSE
    ELSE \A i \in 1..(Len(ticket) - 1) : ticket[i + 1] - ticket[i] = ticket[2] - ticket[1]

\* _popularity_penalty(ticket) in halves
_popularity_penalty(ticket) ==
    LET count_low31 == CountIf(ticket, LAMBDA n : n <= 31)
        consec == Cardinality({i \in 1..(Len(ticket) - 1) : ticket[i + 1] = ticket[i] + 1})
        max_dup == Max({CountIf(ticket, LAMBDA n : n % 10 = d) : d \in {ticket[i] % 10 : i \in DOMAIN ticket}})
    IN  3 * Maximum(0, count_low31 - 3)
        + 2 * consec
        + 2 * Maximum(0, max_dup - 2)
        + (IF _is_arithmetic_progression(ticket) THEN 5 ELSE 0)
        + (IF CountIf(ticket, LAMBDA n : n % 5 = 0) >= 4 THEN 3 ELSE 0)


\* The sampling loops keep <<best_ticket, best_distance or best_score, state of rng>>;
\* best_ticket = <<>> is None (with float('inf') as the best value)
NoBest(x) == [best_ticket |-> <<>>, score |-> 0, rng |-> x]

Better(b, ticket, score, x) ==
    IF b.best_ticket = <<>> \/ score < b.score
    THEN [best_ticket |-> ticket, score |-> score, rng |-> x]
    ELSE [b EXCEPT !.rng = x]

\* ticket = sorted(rng.sample(range(1, 51), 7)): <<ticket, state of rng>>
SortedSample(sample) == <<Sorted(sample[1]), sample[2]>>

RandomTicket(x) == SortedSample(Sample(x, AllNumbers, MainCount))

\* The body of the loop of _feature_distribution_ticket for the sampled ticket t
FeatureTrialOf(b, st, t) == Better(b, t[1], FeatureDistance(_extract_features(t[1]), st), t[2])

FeatureTrial(b, st) == FeatureTrialOf(b, st, RandomTicket(b.rng))

\* The body of the loop of _anti_crowd_ticket for the sampled ticket t
AntiCrowdTrialOf(b, t) == Better(b, t[1], _popularity_penalty(t[1]), t[2])

AntiCrowdTrial(b) == AntiCrowdTrialOf(b, RandomTicket(b.rng))

\* return best_ticket or sorted(rng.sample(range(1, 51), 7)): <<ticket, state of rng>>
BestOrSample(b) == IF b.best_ticket # <<>> THEN <<b.best_ticket, b.rng>> ELSE RandomTicket(b.rng)

TrialCount == 3000

-----------------------------------------------------------------------------
(* _change_point_segment_probabilities *)

\* segment_cost(start, end) in thousandths: -sum(count * log(count / total));
\* epsilon = 1e-6 is below the resolution
SegmentCost(tickets, start, end) ==
    LET counts == TicketCounts(SubSeq(tickets, start, end))
        total == SumSeq(counts)
    IN  SumSeq([i \in Numbers |-> IF counts[i] = 0 THEN 0 ELSE counts[i] * (Ln(total) - Ln(counts[i]))])

\* change_points after recurse(start, end); penalty = 150.0
RECURSIVE ChangePoints(_, _, _, _)
ChangePoints(tickets, start, end, min_segment) ==
    IF end - start + 1 < 2 * min_segment THEN {}
    ELSE LET splits == (start + min_segment)..(end - min_segment)
             cost_full == SegmentCost(tickets, start, end)
             gain == [split \in splits |->
                         cost_full - (SegmentCost(tickets, start, split) + SegmentCost(tickets, split + 1, end))]
             best_gain == Max({0} \cup {gain[split] : split \in splits})
             best_split == IF best_gain > 0 THEN Min({split \in splits : gain[split] = best_gain}) ELSE None
         IN  IF best_split # None /\ best_gain > 150000
             THEN {best_split} \cup ChangePoints(tickets, start, best_split, min_segment)
                               \cup ChangePoints(tickets, best_split + 1, end, min_segment)
             ELSE {}

_change_point_segment_probabilities(tickets) ==
    IF tickets = <<>> THEN [i \in Numbers |-> 1]
    ELSE LET max_draws == Minimum(Len(tickets), 600)
             segment_draws == SubSeq(tickets, Len(tickets) - max_draws + 1, Len(tickets))
             n == Len(segment_draws)
             min_segment == IF n >= 240 THEN 120 ELSE Maximum(20, n \div 4)
             change_points == ChangePoints(segment_draws, 1, n, min_segment)
             last_start == IF change_points # {} THEN Max(change_points) + 1 ELSE 1
         IN  _dirichlet_probabilities(SubSeq(segment_draws, last_start, n))

-----------------------------------------------------------------------------
(* build_recommendations(draws, seed, lang), called twice with the same arguments *)

Langs == {"zh", "en"}

_top_numbers(counts, k) == Keys(MostCommon(counts, k))

\* The states random.Random(seed) can start in
RandomStates(s) == IF s = None THEN EntropyStates ELSE {SeededState(s)}

\* The states the generator of _seeded_random(seed, salt) can start in
SeededRandomStates(s, salt) == IF s = None THEN EntropyStates ELSE {_seeded_random(s, salt)}

\* The texts of a strategy: label, summary and the two lines of the explanation
Label(l, algorithm) == _lang_text(l, <<"zh", "label", algorithm>>, <<"en", "label", algorithm>>)
Summary(l, algorithm) == _lang_text(l, <<"zh", "summary", algorithm>>, <<"en", "summary", algorithm>>)
Explanation(l, algorithm) ==
    << _lang_text(l, <<"zh", "first", algorithm>>, <<"en", "first", algorithm>>),
       _lang_text(l, <<"zh", "second", algorithm>>, <<"en", "second", algorithm>> ) >>

\* Variant: the metrics are computed on the numbers of the English half
\* (n <= 25) when the texts are English
build_recommendation_PerLang(e, l, numbers, algorithm) ==
    _build_recommendation(e, l, IF l = "en" THEN SelectSeq(numbers, IsSmall) ELSE numbers, algorithm,
                          Label(l, algorithm), Summary(l, algorithm), Explanation(l, algorithm))

\* engine.build_recommendation(numbers, algorithm=..., algorithm_label=..., summary=..., explanation=...)
build_recommendation(e, l, numbers, algorithm) ==
    _build_recommendation(e, l, numbers, algorithm, Label(l, algorithm), Summary(l, algorithm),
                          Explanation(l, algorithm))

\* lang = 'en' if lang == 'en' else 'zh'
NormalLang(l) == IF l = "en" THEN "en" ELSE "zh"

EwmaWindow == 200

\* The lists of draws build_recommendations is called with: the latest draw
\* (rolling_window = 1), every draw of the store, and no draw
BuildLists == {get_draws(1, None, None), get_draws(None, None, None), <<>>}

InitBuild ==
    /\ mode = "build"
    /\ pc = "call"
    /\ draws \in BuildLists
    /\ seed \in Seeds \cup {None}
    /\ lang \in Langs
    /\ count = 1
    /\ rolling_window = 0
    /\ engine = NoEngine /\ rng = 0 /\ attempts = 0
    /\ recommendations = <<>> /\ selection = {} /\ pool = <<>>
    /\ result = NoResult /\ raised = "none"
    /\ BuildIdle
    /\ AiIdle
    /\ SiteIdle

\* if not draws: return []
BuildEmpty ==
    /\ mode = "build"
    /\ pc = "call"
    /\ draws = <<>>
    /\ result' = <<>>
    /\ pc' = "done"
    /\ UNCHANGED <<siteVars, aiVars, buildVars, mode, draws, rolling_window, seed, lang, count, engine, rng, attempts,
                   recommendations, selection, pool, raised>>

\* engine = RecommendationEngine(draws, seed=seed, lang=lang); engine.generate(count=1) begins
BuildEngine ==
    /\ mode = "build"
    /\ pc = "call"
    /\ draws # <<>>
    /\ raised' = EngineRaises(draws)
    /\ IF raised' = "none"
       THEN /\ engine' = RecommendationEngine(draws)
            /\ rng' \in RandomStates(seed)
            /\ pc' = "loop"
       ELSE /\ pc' = "done"
            /\ UNCHANGED <<engine, rng>>
    /\ UNCHANGED <<siteVars, aiVars, buildVars, mode, draws, rolling_window, seed, lang, count, attempts,
                   recommendations, selection, pool, result>>

\* Variant: the frequency ticket is appended before balanced[0]
FirstRecs_FrequencyFirst(e, l, balanced, draw_numbers, alg1_ticket) ==
    << build_recommendation(e, l, _top_numbers(e.main_counts, MainCount), "PureFrequencyTop7") >>
    \o (IF balanced # <<>> THEN <<balanced[1]>> ELSE <<>>)
    \o << build_recommendation(e, l, alg1_ticket, "BayesianSmoothedNumberProbabilities_Dirichlet"),
          build_recommendation(e, l, Sorted(TopByScore(_binomial_z_scores(draw_numbers), MainCount)),
                               "SingleNumberSignificanceTest_BinomialZ"),
          build_recommendation(e, l, Sorted(TopByScore(_ewma_scores(draw_numbers, EwmaWindow), MainCount)),
                               "WindowedBayesianHotness_EWMA") >>

\* recommendations after algorithm 3: balanced[0] if generate returned one, then
\* the frequency ticket and the tickets of algorithms 1, 2 and 3
FirstRecs(e, l, balanced, draw_numbers, alg1_ticket) ==
    (IF balanced # <<>> THEN <<balanced[1]>> ELSE <<>>)
    \o << build_recommendation(e, l, _top_numbers(e.main_counts, MainCount), "PureFrequencyTop7"),
          build_recommendation(e, l, alg1_ticket, "BayesianSmoothedNumberProbabilities_Dirichlet"),
          build_recommendation(e, l, Sorted(TopByScore(_binomial_z_scores(draw_numbers), MainCount)),
                               "SingleNumberSignificanceTest_BinomialZ"),
          build_recommendation(e, l, Sorted(TopByScore(_ewma_scores(draw_numbers, EwmaWindow), MainCount)),
                               "WindowedBayesianHotness_EWMA") >>

\* Variant: the change-point ticket is the ticket sampled for algorithm 7
LastRecs_SampledChangePoint(e, l, draw_numbers, alg5_ticket, alg7_ticket) ==
    << build_recommendation(e, l, Sorted(alg5_ticket), "AntiCrowdNumberSelection_PopularityPenalty"),
       build_recommendation(e, l, Sorted(alg7_ticket), "ChangePointDetection_NumberFrequencies"),
       build_recommendation(e, l, Sorted(alg7_ticket), "WeightedSamplingWithoutReplacement_TicketGenerator") >>

\* The recommendations of algorithms 5, 6 and 7
LastRecs(e, l, draw_numbers, alg5_ticket, alg7_ticket) ==
    << build_recommendation(e, l, Sorted(alg5_ticket), "AntiCrowdNumberSelection_PopularityPenalty"),
       build_recommendation(e, l,
                            Sorted(TopByScore(_change_point_segment_probabilities(draw_numbers), MainCount)),
                            "ChangePointDetection_NumberFrequencies"),
       build_recommendation(e, l, Sorted(alg7_ticket), "WeightedSamplingWithoutReplacement_TicketGenerator") >>

\* balanced = engine.generate(count=1) has returned `recommendations`; from here on
\* `recommendations` is the list of build_recommendations. The step runs up to
\* the loop of _feature_distribution_ticket.
FixedStrategies ==
    /\ mode = "build"
    /\ pc = "loop"
    /\ ~LoopCondition
    /\ \E x \in SeededRandomStates(seed, SaltAlgorithms) :
        LET draw_numbers == _draw_numbers(draws)
            alg1 == _weighted_sample_without_replacement(_dirichlet_probabilities(draw_numbers), MainCount, x)
        IN  /\ recommendations' = FirstRecs(engine, NormalLang(lang), recommendations, draw_numbers, alg1[1])
            /\ best' = NoBest(alg1[2])
            /\ feat_stats' = _feature_stats([i \in DOMAIN draw_numbers |-> _extract_features(draw_numbers[i])])
    /\ draws' = InputAfterSorted(draws)
    /\ trial' = 0
    /\ pc' = "feature"
    /\ UNCHANGED <<siteVars, aiVars, call, first_result, mode, rolling_window, seed, lang, count, engine, rng,
                   attempts, selection, pool, result, raised>>

\* One iteration of the loop of _feature_distribution_ticket
FeatureTrialStep ==
    /\ mode = "build"
    /\ pc = "feature"
    /\ trial < TrialCount
    /\ best' = FeatureTrial(best, feat_stats)
    /\ trial' = trial + 1
    /\ UNCHANGED <<siteVars, aiVars, call, first_result, feat_stats, mode, pc, draws, rolling_window, seed, lang, count,
                   engine, rng, attempts, recommendations, selection, pool, result, raised>>

\* _feature_distribution_ticket returns; the recommendation of algorithm 4
FeatureReturn ==
    /\ mode = "build"
    /\ pc = "feature"
    /\ trial >= TrialCount
    /\ recommendations' = Append(recommendations,
           build_recommendation(engine, NormalLang(lang), Sorted(BestOrSample(best)[1]),
                                "FeatureDistributionTest_MonteCarlo"))
    /\ best' = NoBest(BestOrSample(best)[2])
    /\ trial' = 0
    /\ pc' = "anticrowd"
    /\ UNCHANGED <<siteVars, aiVars, call, first_result, feat_stats, mode, draws, rolling_window, seed, lang, count,
                   engine, rng, attempts, selection, pool, result, raised>>

\* One iteration of the loop of _anti_crowd_ticket
AntiCrowdTrialStep ==
    /\ mode = "build"
    /\ pc = "anticrowd"
    /\ trial < TrialCount
    /\ best' = AntiCrowdTrial(best)
    /\ trial' = trial + 1
    /\ UNCHANGED <<siteVars, aiVars, call, first_result, feat_stats, mode, pc, draws, rolling_window, seed, lang, count,
                   engine, rng, attempts, recommendations, selection, pool, result, raised>>

\* _anti_crowd_ticket returns; algorithms 5, 6 and 7; return recommendations
BuildReturn ==
    /\ mode = "build"
    /\ pc = "anticrowd"
    /\ trial >= TrialCount
    /\ \E x \in SeededRandomStates(seed, SaltAlg7) :
        LET draw_numbers == _draw_numbers(draws)
        IN  recommendations' = recommendations \o
                LastRecs(engine, NormalLang(lang), draw_numbers, BestOrSample(best)[1],
                         _weighted_sample_without_replacement(_ewma_scores(draw_numbers, EwmaWindow),
                                                              MainCount, x)[1])
    /\ result' = recommendations'
    /\ trial' = 0
    /\ best' = NoLoop
    /\ feat_stats' = <<>>
    /\ pc' = "done"
    /\ UNCHANGED <<siteVars, aiVars, call, first_result, mode, draws, rolling_window, seed, lang, count,
                   engine, rng, attempts, selection, pool, raised>>

\* The caller keeps the list and calls build_recommendations(draws, seed, lang)
\* again with the same seed
CallAgain ==
    /\ mode = "build"
    /\ pc = "done"
    /\ call = 1
    /\ seed # None
    /\ raised = "none"
    /\ first_result' = result
    /\ call' = 2
    /\ pc' = "call"
    /\ engine' = NoEngine /\ rng' = 0 /\ attempts' = 0
    /\ recommendations' = <<>> /\ selection' = {} /\ pool' = <<>>
    /\ result' = NoResult
    /\ UNCHANGED <<siteVars, aiVars, trial, best, feat_stats, mode, draws, rolling_window, seed, lang, count, raised>>

\* engine.generate(count=1) runs inside the call: the similarity test of line 75
\* ranges over an empty list whenever a candidate is examined, so it never rejects
NextBuild ==
    \/ BuildEmpty
    \/ BuildEngine
    \/ StartAttempt
    \/ FillStep
    \/ RejectConstraints
    \/ Accept
    \/ FixedStrategies
    \/ FeatureTrialStep
    \/ FeatureReturn
    \/ AntiCrowdTrialStep
    \/ BuildReturn
    \/ CallAgain

SpecBuild == InitBuild /\ [][NextBuild]_vars

\* The three entry points of the services: one call of any of them
InitCore == InitAnalysis \/ InitGenerate \/ InitBuild

NextCore == ComputeAnalysis \/ NextGenerate \/ NextBuild

SpecCore == InitCore /\ [][NextCore]_vars

-----------------------------------------------------------------------------
(* services/ai.py: predict_next_draw_probabilities(draws, seed) with the     *)
(* defaults of its other parameters.  Floats are integers in units of 1/Unit *)

Unit == 10 ^ 4

MaxSamples == 400
HiddenSize == 24
Epochs == 25
LearningRatePct == 15
DefaultSeed == 42
WeightBoundPct == 8

\* round(a / b) for b > 0
RoundDiv(a, b) == (2 * a + b) \div (2 * b)

\* The product of two values in units of 1/Unit
Times(a, b) == RoundDiv(a * b, Unit)

\* math.exp(-t) for t >= 0: t = n ln 2 + r, exp(-r) by its series, halved n times
ExpNeg(t) ==
    LET n == t \div 6931
        r == t % 6931
        s5 == Unit - r \div 6
        s4 == Unit - (r * s5) \div (5 * Unit)
        s3 == Unit - (r * s4) \div (4 * Unit)
        s2 == Unit - (r * s3) \div (3 * Unit)
        s1 == Unit - (r * s2) \div (2 * Unit)
    IN  IF n > 14 THEN 0 ELSE (Unit - (r * s1) \div Unit) \div (2 ^ n)

\* 1.0 / (1.0 + math.exp(-z))
Sigmoid(z) ==
    IF z >= 0 THEN (Unit * Unit) \div (Unit + ExpNeg(z))
    ELSE (Unit * ExpNeg(0 - z)) \div (Unit + ExpNeg(0 - z))

\* math.exp(-z) raises OverflowError above exp(709.78)
ExpOverflows(z) == 0 - z > 7097827

\* _multi_hot(numbers): 1 for 1.0, 0 for 0.0
_multi_hot(numbers) ==
    List([i \in 1..MaxNumber |-> IF \E p \in DOMAIN numbers : numbers[p] = i THEN 1 ELSE 0])

\* _build_training_pairs(draws, max_samples): the pairs <<input, target>>
_build_training_pairs(ds, max_samples) ==
    LET pairs == [i \in 1..(Len(ds) - 1) |->
                     <<_multi_hot(ds[i].numbers), _multi_hot(ds[i + 1].numbers)>>]
    IN  IF max_samples # 0 /\ Len(pairs) > max_samples
        THEN SubSeq(pairs, Len(pairs) - max_samples + 1, Len(pairs))
        ELSE pairs

\* rng.uniform(-0.08, 0.08) on the state reached by the step
Uniform(x) ==
    LET bound == (WeightBoundPct * Unit) \div 100
    IN  (0 - bound) + (2 * bound * x) \div RngMod

\* The states of the generator after 1, 2, ... n steps from x
RECURSIVE Orbit(_, _)
OrbitJoin(first, n) == first \o Orbit(first[Len(first)], n - Len(first))

Orbit(x, n) ==
    IF n = 0 THEN <<>>
    ELSE IF n = 1 THEN <<RngNext(x)>>
    ELSE OrbitJoin(List(Orbit(x, n \div 2)), n)

\* The generator returns to x after RngMod steps: the state after k steps is the
\* one after k % RngMod steps
StateAfter(orbit, k) == orbit[((k - 1) % RngMod) + 1]

\* w1, b1, w2, b2 of _train_mlp before the first pass, rng in state x
InitialNetOf(orbit) ==
    [w1 |-> List([i \in 1..MaxNumber |->
                List([j \in 1..HiddenSize |-> Uniform(StateAfter(orbit, (i - 1) * HiddenSize + j))])]),
     b1 |-> List([j \in 1..HiddenSize |-> 0]),
     w2 |-> List([j \in 1..HiddenSize |->
                List([k \in 1..MaxNumber |->
                    Uniform(StateAfter(orbit, MaxNumber * HiddenSize + (j - 1) * MaxNumber + k))])]),
     b2 |-> List([k \in 1..MaxNumber |-> 0])]

InitialNet(x) == InitialNetOf(List(Orbit(x, RngMod)))

_dot_col(x, matrix, col) == SumSeq(List([i \in DOMAIN x |-> x[i] * matrix[i][col]]))

_dot_row(x, matrix, col) == SumSeq(List([i \in DOMAIN x |-> Times(x[i], matrix[i][col])]))

\* z1, h and z2 of _train_mlp and _forward
Z1(model, x) == List([j \in 1..HiddenSize |-> model.b1[j] + _dot_col(x, model.w1, j)])

Relu(z1) == List([j \in DOMAIN z1 |-> Maximum(0, z1[j])])

Z2(model, h) == List([k \in 1..MaxNumber |-> model.b2[k] + _dot_row(h, model.w2, k)])

Sigmoids(z2) == List([k \in DOMAIN z2 |-> Sigmoid(z2[k])])

\* math.exp raises in _forward or in the body of the inner loop of _train_mlp
Overflows(z2) == \E k \in DOMAIN z2 : ExpOverflows(z2[k])

\* The value of _forward(model, x), or Overflow
Overflow == [raises |-> "OverflowError"]

ForwardOf(z2) == IF Overflows(z2) THEN Overflow ELSE Sigmoids(z2)

Forward(model, x) == ForwardOf(Z2(model, Relu(Z1(model, x))))

\* learning_rate * v
Rate(v) == RoundDiv(LearningRatePct * v, 100)

\* delta2 = yhat - y
Delta2(yhat, y) == List([k \in DOMAIN yhat |-> yhat[k] - y[k] * Unit])

\* delta1: the error passed back through w2 where z1 is positive
Delta1(model, z1, delta2) ==
    List([j \in 1..HiddenSize |->
        IF z1[j] > 0
        THEN SumSeq(List([k \in 1..MaxNumber |-> Times(delta2[k], model.w2[j][k])]))
        ELSE 0])

\* The four updates of one pair
Updated(model, x, h, delta2, delta1) ==
    [w1 |-> List([i \in 1..MaxNumber |->
                IF x[i] = 0 THEN model.w1[i]
                ELSE List([j \in 1..HiddenSize |-> model.w1[i][j] - Rate(delta1[j] * x[i])])]),
     b1 |-> List([j \in 1..HiddenSize |-> model.b1[j] - Rate(delta1[j])]),
     w2 |-> List([j \in 1..HiddenSize |->
                List([k \in 1..MaxNumber |-> model.w2[j][k] - Rate(Times(delta2[k], h[j]))])]),
     b2 |-> List([k \in 1..MaxNumber |-> model.b2[k] - Rate(delta2[k])])]

BackPropagate(model, x, z1, h, delta2) == Updated(model, x, h, delta2, Delta1(model, z1, delta2))

Respond(model, x, y, z1, h, z2) ==
    IF Overflows(z2) THEN Overflow ELSE BackPropagate(model, x, z1, h, Delta2(Sigmoids(z2), y))

Propagate(model, x, y, z1, h) == Respond(model, x, y, z1, h, Z2(model, h))

Activate(model, x, y, z1) == Propagate(model, x, y, z1, Relu(z1))

\* The body of the inner loop of _train_mlp for the pair <<x, y>>: the model
\* after the updates, or Overflow
TrainPair(model, p) == Activate(model, p[1], p[2], Z1(model, p[1]))

\* ordered = sorted(draws, key=lambda d: d.date)
Ordered == SortedByDate(draws)

\* Variant: if len(ordered) < 1
Degenerate_Empty(ordered) == Len(ordered) < 1

\* if len(ordered) < 2
Degenerate(ordered) == Len(ordered) < 2

Meta(draws_used, samples, epochs) ==
    [draws_used |-> draws_used, samples |-> samples, hidden_size |-> HiddenSize,
     epochs |-> epochs, learning_rate |-> LearningRatePct]

\* The value returned for fewer than 2 draws
DegenerateResult(ordered) ==
    [probabilities |-> [i \in 1..MaxNumber |-> [number |-> i, probability |-> 0]],
     top_numbers |-> <<>>,
     meta |-> Meta(Len(ordered), 0, 0)]

\* The value returned after training; probs = _forward(model, x)
TrainedResult(ordered, probs, samples) ==
    [probabilities |-> [i \in 1..MaxNumber |-> [number |-> i, probability |-> probs[i]]],
     top_numbers |-> DescOrder(probs, MainCount),
     meta |-> Meta(Len(ordered), samples, Epochs)]

PredictResult(ordered, probs) ==
    IF probs = Overflow THEN NoResult
    ELSE TrainedResult(ordered, probs, Len(_build_training_pairs(ordered, MaxSamples)))

\* The draw lists api_ai passes: get_draws(window, end_date=base_draw_date)
AiLists == {ds \in StoreLists : Len(ds) <= MaxDraws}

InitPredict ==
    /\ mode = "predict"
    /\ pc = "call"
    /\ draws \in AiLists
    /\ seed \in Seeds \cup {None}
    /\ rolling_window = 0
    /\ lang = "zh" /\ count = 0
    /\ engine = NoEngine /\ rng = 0 /\ attempts = 0
    /\ recommendations = <<>> /\ selection = {} /\ pool = <<>>
    /\ result = NoResult /\ raised = "none"
    /\ BuildIdle
    /\ AiIdle
    /\ SiteIdle

\* if len(ordered) < 2: return {...}
PredictDegenerate ==
    /\ mode = "predict"
    /\ pc = "call"
    /\ Degenerate(Ordered)
    /\ result' = DegenerateResult(Ordered)
    /\ pc' = "done"
    /\ UNCHANGED <<siteVars, aiVars, buildVars, mode, draws, rolling_window, seed, lang, count, engine, rng,
                   attempts, recommendations, selection, pool, raised>>

\* rng = random.Random(seed or 42) and the initial weights of _train_mlp
PredictStart ==
    /\ mode = "predict"
    /\ pc = "call"
    /\ ~Degenerate(Ordered)
    /\ rng' = SeededState(IF seed = None THEN DefaultSeed ELSE seed)
    /\ net' = InitialNet(rng')
    /\ epoch' = 0
    /\ pair_idx' = 0
    /\ pc' = "train"
    /\ UNCHANGED <<siteVars, buildVars, mode, draws, rolling_window, seed, lang, count, engine,
                   attempts, recommendations, selection, pool, result, raised>>

Pairs == _build_training_pairs(Ordered, MaxSamples)

\* One pass of the inner loop of _train_mlp: for x, y in zip(inputs, targets)
TrainStep ==
    /\ mode = "predict"
    /\ pc = "train"
    /\ epoch < Maximum(Epochs, 1)
    /\ pair_idx < Len(Pairs)
    /\ net' = TrainPair(net, Pairs[pair_idx + 1])
    /\ IF net' = Overflow
       THEN /\ raised' = "OverflowError"
            /\ pc' = "done"
            /\ UNCHANGED pair_idx
       ELSE /\ pair_idx' = pair_idx + 1
            /\ UNCHANGED <<pc, raised>>
    /\ UNCHANGED <<siteVars, buildVars, epoch, mode, draws, rolling_window, seed, lang, count, engine, rng,
                   attempts, recommendations, selection, pool, result>>

\* The inner loop is exhausted: the next pass of for _ in range(max(epochs, 1))
NextEpoch ==
    /\ mode = "predict"
    /\ pc = "train"
    /\ epoch < Maximum(Epochs, 1)
    /\ pair_idx >= Len(Pairs)
    /\ epoch' = epoch + 1
    /\ pair_idx' = 0
    /\ UNCHANGED <<siteVars, buildVars, net, mode, pc, draws, rolling_window, seed, lang, count, engine, rng,
                   attempts, recommendations, selection, pool, result, raised>>

\* _train_mlp returns; probs = _forward(model, x) for the last draw, and the result
PredictReturn ==
    /\ mode = "predict"
    /\ pc = "train"
    /\ epoch >= Maximum(Epochs, 1)
    /\ result' = PredictResult(Ordered, Forward(net, _multi_hot(Ordered[Len(Ordered)].numbers)))
    /\ raised' = IF result' = NoResult THEN "OverflowError" ELSE "none"
    /\ pc' = "done"
    /\ UNCHANGED <<siteVars, aiVars, buildVars, mode, draws, rolling_window, seed, lang, count, engine, rng,
                   attempts, recommendations, selection, pool>>

NextPredict ==
    \/ PredictDegenerate
    \/ PredictStart
    \/ TrainStep
    \/ NextEpoch
    \/ PredictReturn

SpecPredict == InitPredict /\ [][NextPredict]_vars

-----------------------------------------------------------------------------
(* services/cache.py: AnalysisCache over django.core.cache.  A cached value   *)
(* is a tuple; NoValue is the value None, which cache.get also returns for a  *)
(* key without an entry.                                                      *)

NoValue == <<>>

\* The names of the parameters in the order json.dumps(sort_keys=True) writes them
ParamOrder == <<"end_date", "game", "rolling", "seed", "start_date", "window">>

\* json.dumps(params, sort_keys=True, default=str) for the dict params, given as
\* its <<name, value>> items in insertion order
Payload(params) ==
    LET present == SelectSeq(ParamOrder, LAMBDA n : \E i \in DOMAIN params : params[i][1] = n)
    IN  [k \in DOMAIN present |->
            <<present[k], params[CHOOSE i \in DOMAIN params : params[i][1] = present[k]][2]>>]

\* build_key(name, params): f"analysis:{name}:{digest}" with the first 12 hex
\* digits of sha256(payload), which differ for the payloads of the model
build_key(name, params) == <<"analysis", name, Payload(params)>>

\* cache.get(key)
cache_get(c, key) ==
    IF \E e \in c : e.key = key THEN (CHOOSE e \in c : e.key = key).value ELSE NoValue

\* cache.set(key, value, ttl)
cache_set(c, key, value) == {e \in c : e.key # key} \cup {[key |-> key, value |-> value]}

\* Variant: the factory is called and its value stored without the test of `cached`
get_or_set_Unconditional(c, name, params, value) ==
    [value |-> value, cache |-> cache_set(c, build_key(name, params), value), factory_calls |-> 1]

\* get_or_set(name, params, factory, ttl) on the cache c, where factory() would
\* return `value`: the value returned, the cache after the call and the number
\* of calls of the factory
get_or_set(c, name, params, value) ==
    LET key == build_key(name, params)
        cached == cache_get(c, key)
    IN  IF cached # NoValue
        THEN [value |-> cached, cache |-> c, factory_calls |-> 0]
        ELSE [value |-> value, cache |-> cache_set(c, key, value), factory_calls |-> 1]

-----------------------------------------------------------------------------
(* views.py: recommendations and api_ai.  Every worker serves one request at *)
(* a time; each ORM call is one statement of the database (autocommit), so   *)
(* the calls of concurrent requests interleave between the statements.       *)

NumWorkers == 2      \* workers serving requests concurrently
MaxServed == 2       \* requests one worker serves

Workers == 1..NumWorkers

Views == {"recommendations", "api_ai"}

\* window_value = window if window > 0 else 0
WindowValues == 0..1

\* A row of the Draw table
Row(key, d, t) == [game |-> key, date |-> d, numbers |-> Tickets[t], bonus |-> Bonuses[t]]

\* Draw.objects.filter(game=key).order_by('-date')
GameDraws(tab, key) ==
    LET rows == {row \in tab : row.game = key}
        dates == SortedSet({row.date : row \in rows})
        n == Len(dates)
    IN  [i \in 1..n |-> CHOOSE row \in rows : row.date = dates[n + 1 - i]]

\* latest_two, latest_draw, previous_draw, base_draw
LatestTwo(tab, key) == Take(GameDraws(tab, key), 2)
\* Variant: base_draw = latest_draw
BaseDrawDate_Latest(latest_two) ==
    IF Len(latest_two) >= 1 THEN latest_two[1].date ELSE None

\* base_draw_date: the date of previous_draw or latest_draw, None without a draw
BaseDrawDate(latest_two) ==
    IF Len(latest_two) > 1 THEN latest_two[2].date
    ELSE IF Len(latest_two) = 1 THEN latest_two[1].date ELSE None

\* str(seed or f"auto:{base_draw_date.isoformat()}:{window_value}").strip(),
\* api_ai: f"auto:ai:{...}:{...}"
SeedValue(view, s, base, window) ==
    IF s # None THEN <<"seed", s>>
    ELSE IF view = "recommendations" THEN <<"auto", IsoFormat(base), window>>
    ELSE <<"auto", "ai", IsoFormat(base), window>>

\* get_draws(window=window_value or None, end_date=base_draw_date, game=game.key)
ViewDraws(tab, key, window, end_date) ==
    LET upto == SelectSeq(GameDraws(tab, key), LAMBDA d : end_date = None \/ d.date <= end_date)
    IN  IF window # 0 THEN Take(upto, window) ELSE upto

\* The payload computed from the draws read and the seed: a function of its arguments
SnapshotPayload(view, ds, seed_value) == <<view, seed_value, ds>>

SnapshotModel(view) ==
    IF view = "recommendations" THEN "RecommendationSnapshot" ELSE "AiPredictionSnapshot"

SnapshotKey(key, base, window, seed_value) ==
    [game |-> key, base_draw_date |-> base, window |-> window, seed |-> seed_value]

SnapshotRow(model, k, payload) == [model |-> model, key |-> k, payload |-> payload]

\* Variant: the seed is left out of the filter
Matching_AnySeed(rows, model, k) ==
    SelectSeq(rows, LAMBDA row : /\ row.model = model
                                 /\ row.key.game = k.game
                                 /\ row.key.base_draw_date = k.base_draw_date
                                 /\ row.key.window = k.window)

\* objects.filter(game=..., base_draw_date=..., window=..., seed=...): the rows of the model
\* with this key, in table order
Matching(rows, model, k) == SelectSeq(rows, LAMBDA row : row.model = model /\ row.key = k)

\* Variant: the constraint is not declared
UniqueViolation_Undeclared(rows, row) == FALSE

\* UniqueConstraint(fields=['game', 'base_draw_date', 'window', 'seed'])
UniqueViolation(rows, row) == Matching(rows, row.model, row.key) # <<>>

IdleRequest ==
    [pc |-> "idle", view |-> "", window |-> 0, seed |-> None, base |-> None,
     hit |-> FALSE, computed |-> FALSE, payload |-> <<>>, response |-> <<>>,
     status |-> "", served |-> 0]

KeyOf(r) == SnapshotKey(game.key, r.base, r.window, SeedValue(r.view, r.seed, r.base, r.window))

ViewTables == { {}, {Row("max", 1, 1)}, {Row("max", 1, 1), Row("max", 2, 2)} }

InitViews ==
    /\ mode = "views"
    /\ pc = "serve"
    /\ draws = <<>> /\ rolling_window = 0
    /\ seed = None /\ lang = "zh" /\ count = 0
    /\ engine = NoEngine /\ rng = 0 /\ attempts = 0
    /\ recommendations = <<>> /\ selection = {} /\ pool = <<>>
    /\ result = NoResult /\ raised = "none"
    /\ BuildIdle
    /\ AiIdle
    /\ game = DefaultGame
    /\ table \in ViewTables
    /\ snapshots = <<>>
    /\ requests = [w \in Workers |-> IdleRequest]
    /\ ingest = NoIngest
    /\ cache = {}

serviceVars == <<mode, pc, draws, rolling_window, seed, lang, count, engine, rng, attempts,
                 recommendations, selection, pool, result, raised, buildVars, aiVars>>

\* The request reaches the view: parameters parsed, latest_two read (lines 150-162, 336-354)
Begin(w) ==
    /\ mode = "views"
    /\ requests[w].pc \in {"idle", "done"}
    /\ requests[w].served < MaxServed
    /\ \E view \in Views, window \in WindowValues, s \in {None, 1} :
         LET base == BaseDrawDate(LatestTwo(table, game.key))
         IN  requests' = [requests EXCEPT ![w] =
                 [pc |-> IF base # None THEN "lookup"
                         ELSE IF view = "api_ai" THEN "uncached" ELSE "respond",
                  view |-> view, window |-> window, seed |-> s, base |-> base,
                  hit |-> FALSE, computed |-> FALSE, payload |-> <<>>, response |-> <<>>,
                  status |-> "", served |-> requests[w].served + 1]]
    /\ UNCHANGED <<serviceVars, game, table, snapshots, ingest, cache>>

\* snapshot = ...objects.filter(...).first(); if snapshot is None: ...
Lookup(w) ==
    /\ mode = "views"
    /\ requests[w].pc = "lookup"
    /\ LET r == requests[w]
           found == Matching(snapshots, SnapshotModel(r.view), KeyOf(r))
       IN  requests' = [requests EXCEPT ![w] =
               IF found # <<>>
               THEN [r EXCEPT !.pc = "respond", !.hit = TRUE, !.payload = found[1].payload]
               ELSE [r EXCEPT !.pc = "compute"]]
    /\ UNCHANGED <<serviceVars, game, table, snapshots, ingest, cache>>

\* draws = get_draws(...); payload = build_recommendation_snapshot_payload(...) or
\* predict_next_draw_probabilities(...)
Compute(w) ==
    /\ mode = "views"
    /\ requests[w].pc = "compute"
    /\ LET r == requests[w]
           ds == ViewDraws(table, game.key, r.window, r.base)
       IN  requests' = [requests EXCEPT ![w] =
               [r EXCEPT !.pc = "create", !.computed = TRUE,
                         !.payload = SnapshotPayload(r.view, ds, KeyOf(r).seed)]]
    /\ UNCHANGED <<serviceVars, game, table, snapshots, ingest, cache>>

\* snapshot = ...objects.create(...): the insert, or IntegrityError out of the view
Create(w) ==
    /\ mode = "views"
    /\ requests[w].pc = "create"
    /\ LET r == requests[w]
           row == SnapshotRow(SnapshotModel(r.view), KeyOf(r), r.payload)
       IN  IF UniqueViolation(snapshots, row)
           THEN /\ requests' = [requests EXCEPT ![w] =
                        [r EXCEPT !.pc = "done", !.status = "IntegrityError"]]
                /\ UNCHANGED snapshots
           ELSE /\ snapshots' = Append(snapshots, row)
                /\ requests' = [requests EXCEPT ![w] = [r EXCEPT !.pc = "respond"]]
    /\ UNCHANGED <<serviceVars, game, table, ingest, cache>>

\* api_ai without a base draw: result = cache.get_or_set('ai', params, compute)
Uncached(w) ==
    /\ mode = "views"
    /\ requests[w].pc = "uncached"
    /\ LET r == requests[w]
           ds == ViewDraws(table, game.key, r.window, None)
           params == << <<"game", game.key>>, <<"window", r.window>>, <<"seed", r.seed>> >>
           got == get_or_set(cache, "ai", params, SnapshotPayload(r.view, ds, r.seed))
       IN  /\ requests' = [requests EXCEPT ![w] =
                  [r EXCEPT !.pc = "respond", !.computed = (got.factory_calls > 0),
                            !.payload = got.value]]
           /\ cache' = got.cache
    /\ UNCHANGED <<serviceVars, game, table, snapshots, ingest>>

\* The response is built from snapshot.payload (for item in snapshot.payload, result = ...)
Render(w) ==
    /\ mode = "views"
    /\ requests[w].pc = "respond"
    /\ requests' = [requests EXCEPT ![w] =
           [requests[w] EXCEPT !.pc = "done", !.status = "ok", !.response = requests[w].payload]]
    /\ UNCHANGED <<serviceVars, game, table, snapshots, ingest, cache>>

NextViews == \E w \in Workers :
    \/ Begin(w)
    \/ Lookup(w)
    \/ Compute(w)
    \/ Create(w)
    \/ Uncached(w)
    \/ Render(w)

SpecViews == InitViews /\ [][NextViews]_vars

-----------------------------------------------------------------------------
(* The services called for a configured game: compute_analysis and           *)
(* RecommendationEngine.generate take the draws of the game; neither takes   *)
(* main_count or max_number.                                                 *)

\* A game of 6 numbers out of 49 next to the default game
SixOfFortyNine == [key |-> "649", main_count |-> 6, max_number |-> 49]

Games == {DefaultGame, SixOfFortyNine}

\* Stored draws of a game, the newest first: main_count numbers within 1..max_number
GameStore(g) ==
    IF g = DefaultGame THEN Store
    ELSE << [date |-> 4, numbers |-> <<1, 2, 3, 4, 5, 6>>, bonus |-> 8],
            [date |-> 3, numbers |-> <<5, 12, 19, 26, 33, 40>>, bonus |-> 1],
            [date |-> 2, numbers |-> <<3, 8, 17, 24, 31, 42>>, bonus |-> 9],
            [date |-> 1, numbers |-> <<10, 11, 12, 13, 14, 15>>, bonus |-> 17] >>

GameLists(g) == {Take(GameStore(g), k) : k \in 0..Len(GameStore(g))}

InitGame ==
    /\ game \in Games
    /\ draws \in GameLists(game)
    /\ \/ /\ mode = "analysis" /\ pc = "call"
          /\ rolling_window \in 1..MaxWindow
          /\ seed = None /\ count = 0
       \/ /\ mode = "generate" /\ pc = "new"
          /\ rolling_window = 0
          /\ seed \in Seeds \cup {None} /\ count \in 1..MaxCount
    /\ lang = "zh"
    /\ engine = NoEngine /\ rng = 0 /\ attempts = 0
    /\ recommendations = <<>> /\ selection = {} /\ pool = <<>>
    /\ result = NoResult /\ raised = "none"
    /\ BuildIdle
    /\ AiIdle
    /\ table = {} /\ snapshots = <<>> /\ requests = <<>> /\ ingest = NoIngest
    /\ cache = {}

NextGame == ComputeAnalysis \/ NextGenerate

SpecGame == InitGame /\ [][NextGame]_vars

-----------------------------------------------------------------------------
(* services/ingestion.py: ingest_draws.  The scrapers are the environment:   *)
(* fetch_draws delivers any list of records, or raises ScrapeError.          *)

MaxRuns == 2         \* ingest_draws runs
MaxBatch == 2        \* records one fetch delivers

\* Lists of main numbers a scraper may deliver: in order, out of order with a repeat,
\* another ticket, too few, out of range
ScrapedNumbers ==
    { <<1, 2, 3, 4, 5, 6, 7>>, <<7, 6, 5, 4, 3, 2, 1, 1>>, <<5, 12, 19, 26, 33, 40, 47>>,
      <<1, 2, 3, 4, 5, 6>>, <<1, 2, 3, 4, 5, 6, 51>> }

ScrapedBonuses(numbers) ==
    IF numbers = <<1, 2, 3, 4, 5, 6, 7>> THEN {8, 1, 51}
    ELSE IF numbers = <<5, 12, 19, 26, 33, 40, 47>> THEN {8, 1}
    ELSE {8}

\* DrawRecord(date, numbers, bonus, source_url)
ScrapedRecords ==
    {rec \in [date : 1..MaxDate, numbers : ScrapedNumbers, bonus : {8, 1, 51}] :
        rec.bonus \in ScrapedBonuses(rec.numbers)}

\* The lists a fetch delivers: records of different dates come the newest first
ScrapedBatches ==
    {batch \in UNION {[1..k -> ScrapedRecords] : k \in 0..MaxBatch} :
        \A i \in 1..(Len(batch) - 1) : batch[i].date >= batch[i + 1].date}

\* normalize_numbers: sorted({int(n) for n in numbers})
normalize_numbers(numbers) == SortedSet(Range(numbers))

\* Variant: the bonus is not compared with the main numbers
validate_draw_BonusUnchecked(record, main_count, max_number) ==
    LET numbers == normalize_numbers(record.numbers)
    IN  IF Len(numbers) # main_count THEN "expected unique main numbers"
        ELSE IF \E i \in DOMAIN numbers : numbers[i] < 1 \/ numbers[i] > max_number
             THEN "main numbers out of range"
        ELSE IF record.bonus < 1 \/ record.bonus > max_number THEN "bonus number out of range"
        ELSE ""

\* validate_draw: the reason of the rejection, "" for (True, '')
validate_draw(record, main_count, max_number) ==
    LET numbers == normalize_numbers(record.numbers)
    IN  IF Len(numbers) # main_count THEN "expected unique main numbers"
        ELSE IF \E i \in DOMAIN numbers : numbers[i] < 1 \/ numbers[i] > max_number
             THEN "main numbers out of range"
        ELSE IF record.bonus < 1 \/ record.bonus > max_number THEN "bonus number out of range"
        ELSE IF record.bonus \in Range(numbers) THEN "bonus duplicates main number"
        ELSE ""

\* since = latest_draw.date when incremental and a draw of the game is stored
SinceOf(tab, key, incremental) ==
    LET stored == GameDraws(tab, key)
    IN  IF incremental /\ stored # <<>> THEN stored[1].date ELSE None

\* records = [record for record in records if record.date >= since]
Since(records, since) ==
    IF since # None THEN SelectSeq(records, LAMBDA rec : rec.date >= since) ELSE records

\* deduped[record.date] = record; records.sort(key=lambda r: r.date, reverse=True)
Deduped(records) ==
    LET dates == SortedSet({records[i].date : i \in DOMAIN records})
        n == Len(dates)
        last(d) == CHOOSE i \in DOMAIN records :
                       /\ records[i].date = d
                       /\ \A j \in DOMAIN records : records[j].date = d => j <= i
    IN  [i \in 1..n |-> records[last(dates[n + 1 - i])]]

\* Variant: no stored draw is looked up
Existing_None(tab, key, records) == {}

\* existing_draws: the stored draws of the game on the dates of the records
Existing(tab, key, records) ==
    {row \in tab : row.game = key /\ \E i \in DOMAIN records : records[i].date = row.date}

\* The branch the loop body takes for a record
Outcome(record, existing, g) ==
    IF validate_draw(record, g.main_count, g.max_number) # "" THEN "invalid"
    ELSE LET numbers == normalize_numbers(record.numbers)
             found == {row \in existing : row.date = record.date}
         IN  IF found = {} THEN "new"
             ELSE IF \E row \in found : row.numbers = numbers /\ row.bonus = record.bonus
                  THEN "same" ELSE "conflict"

\* new_draw = Draw(game=game_key, date=record.date, numbers=numbers, bonus=bonus, ...)
NewDraw(record, g) ==
    [game |-> g.key, date |-> record.date,
     numbers |-> normalize_numbers(record.numbers), bonus |-> record.bonus]

\* Draw.objects.bulk_create(new_draws) under UniqueConstraint(fields=['game', 'date'])
DrawConflict(tab, rows) ==
    \/ \E row \in rows : \E old \in tab : old.game = row.game /\ old.date = row.date
    \/ \E a, b \in rows : a # b /\ a.game = b.game /\ a.date = b.date

NoRun ==
    [runs |-> 0, fetched |-> "none", records |-> <<>>, incremental |-> FALSE, status |-> "",
     raised |-> "none", logged |-> 0, draws_processed |-> 0, draws_added |-> 0, skipped |-> 0]

\* The scrapers of SCRAPERS, all enabled in settings.LOTTO_CONFIG['DATA_SOURCES']
NumSources == 3

Sources == 1..NumSources

\* fetch_draws(source='auto'): ScrapeError when no source is enabled or the
\* fetch_draws of every enabled scraper raised ScrapeError (failed[i])
fetch_draws_raises(enabled, failed) ==
    IF enabled = {} THEN "ScrapeError"
    ELSE IF \A i \in enabled : failed[i] THEN "ScrapeError"
    ELSE "none"

\* Variant: the handler logs the failure and returns instead of raising again
FailedRun_Absorbed(runs, incremental) ==
    [runs |-> runs + 1, fetched |-> "ScrapeError", records |-> <<>>, incremental |-> incremental,
     status |-> "failed", raised |-> "none", logged |-> 1,
     draws_processed |-> 0, draws_added |-> 0, skipped |-> 0]

\* The call that ends in `except ScrapeError`: one IngestionLog with status
\* 'failed', draws_processed = 0 and draws_added = 0 is created, then `raise`
FailedRun(runs, incremental) ==
    [runs |-> runs + 1, fetched |-> "ScrapeError", records |-> <<>>, incremental |-> incremental,
     status |-> "failed", raised |-> "ScrapeError", logged |-> 1,
     draws_processed |-> 0, draws_added |-> 0, skipped |-> 0]

\* The branch taken for each record of the loop
Outcomes(records, existing, g) == List([i \in DOMAIN records |-> Outcome(records[i], existing, g)])

\* The value returned and the rows created, from the branches the loop took
RunResult(tab, g, records, outcome) ==
    LET new_draws == {NewDraw(records[i], g) : i \in {j \in DOMAIN records : outcome[j] = "new"}}
        skipped == Cardinality({i \in DOMAIN records : outcome[i] \in {"invalid", "conflict"}})
    IN  IF DrawConflict(tab, new_draws)
        THEN [rows |-> {}, status |-> "failed", raised |-> "IntegrityError",
              draws_processed |-> Len(records), draws_added |-> 0, skipped |-> skipped]
        ELSE [rows |-> new_draws, status |-> IF skipped = 0 THEN "success" ELSE "partial",
              raised |-> "none", draws_processed |-> Len(records),
              draws_added |-> Cardinality(new_draws), skipped |-> skipped]

\* The run with the records the scrapers delivered
RunOf(tab, g, batch, incremental) ==
    Apply(LAMBDA records :
              Apply(LAMBDA outcome : RunResult(tab, g, records, outcome),
                    Outcomes(records, Existing(tab, g.key, records), g)),
          List(Deduped(Since(batch, SinceOf(tab, g.key, incremental)))))

InitIngest ==
    /\ mode = "ingest"
    /\ pc = "serve"
    /\ draws = <<>> /\ rolling_window = 0
    /\ seed = None /\ lang = "zh" /\ count = 0
    /\ engine = NoEngine /\ rng = 0 /\ attempts = 0
    /\ recommendations = <<>> /\ selection = {} /\ pool = <<>>
    /\ result = NoResult /\ raised = "none"
    /\ BuildIdle
    /\ AiIdle
    /\ game = DefaultGame
    /\ table = {}
    /\ snapshots = <<>>
    /\ requests = <<>>
    /\ ingest = NoRun
    /\ cache = {}

\* ingest_draws(incremental=..., game=...): fetch_draws returned records
IngestRun ==
    /\ mode = "ingest"
    /\ ingest.runs < MaxRuns
    /\ {failed \in [Sources -> BOOLEAN] : fetch_draws_raises(Sources, failed) = "none"} # {}
    /\ \E g \in Games, batch \in ScrapedBatches, incremental \in BOOLEAN :
         \E run \in {RunOf(table, g, batch, incremental)} :
             /\ game' = g
             /\ table' = table \cup run.rows
             /\ ingest' = [runs |-> ingest.runs + 1, fetched |-> "records", records |-> batch,
                           incremental |-> incremental, status |-> run.status,
                           raised |-> run.raised,
                           logged |-> IF run.raised = "none" THEN 1 ELSE 0,
                           draws_processed |-> run.draws_processed,
                           draws_added |-> run.draws_added, skipped |-> run.skipped]
    \* the factory of the post-ingest cache.get_or_set calls get_draws(game=...) and
    \* compute_analysis(max_number=...), which take no such argument: the TypeError
    \* is caught at line 179 and the cache is left as it was
    /\ UNCHANGED <<serviceVars, snapshots, requests, cache>>

\* ingest_draws: fetch_draws raised ScrapeError; the failure is logged and raised again
IngestFailed ==
    /\ mode = "ingest"
    /\ ingest.runs < MaxRuns
    /\ {failed \in [Sources -> BOOLEAN] : fetch_draws_raises(Sources, failed) = "ScrapeError"} # {}
    /\ \E g \in Games, incremental \in BOOLEAN :
         /\ game' = g
         /\ ingest' = FailedRun(ingest.runs, incremental)
    /\ UNCHANGED <<serviceVars, table, snapshots, requests, cache>>

NextIngest == IngestRun \/ IngestFailed

SpecIngest == InitIngest /\ [][NextIngest]_vars

-----------------------------------------------------------------------------
(* build_recommendations called again with another seed or another lang *)

\* The caller keeps the list and calls build_recommendations(draws, seed, lang)
\* again with the same draws and lang and another seed (call = 3)
CallReseeded ==
    /\ mode = "build"
    /\ pc = "done"
    /\ call = 1
    /\ seed # None
    /\ raised = "none"
    /\ seed' \in Seeds \ {seed}
    /\ first_result' = result
    /\ call' = 3
    /\ pc' = "call"
    /\ engine' = NoEngine /\ rng' = 0 /\ attempts' = 0
    /\ recommendations' = <<>> /\ selection' = {} /\ pool' = <<>>
    /\ result' = NoResult
    /\ UNCHANGED <<siteVars, aiVars, trial, best, feat_stats, mode, draws, rolling_window, lang, count, raised>>

\* The caller keeps the list and calls build_recommendations(draws, seed, lang)
\* again with the same draws and seed (not None) and the other lang (call = 4)
CallTranslated ==
    /\ mode = "build"
    /\ pc = "done"
    /\ call = 1
    /\ seed # None
    /\ raised = "none"
    /\ lang' \in Langs \ {lang}
    /\ first_result' = result
    /\ call' = 4
    /\ pc' = "call"
    /\ engine' = NoEngine /\ rng' = 0 /\ attempts' = 0
    /\ recommendations' = <<>> /\ selection' = {} /\ pool' = <<>>
    /\ result' = NoResult
    /\ UNCHANGED <<siteVars, aiVars, trial, best, feat_stats, mode, draws, rolling_window, seed, count, raised>>

NextCalls ==
    \/ NextBuild
    \/ CallReseeded
    \/ CallTranslated

\* The first call is made with a seed
InitCalls == InitBuild /\ seed # None

SpecCalls == InitCalls /\ [][NextCalls]_vars

-----------------------------------------------------------------------------
(* Calls of AnalysisCache.get_or_set, one after another, and the expiry of   *)
(* entries                                                                    *)

NumValues == 2       \* distinct values a factory can return, besides None

\* get_or_set is called with the names 'analysis' and 'ai'
CacheNames == {"analysis", "ai"}

\* The dicts {'game': ..., 'window': ...} of the callers, in both insertion orders
ParamDicts ==
    UNION {{ << <<"game", DefaultGame.key>>, <<"window", window>> >>,
             << <<"window", window>>, <<"game", DefaultGame.key>> >> } : window \in WindowValues}

\* What factory() can return: None or a value
FactoryValues == {NoValue} \cup {<<"value", i>> : i \in 1..NumValues}

InitCache ==
    /\ mode = "cache"
    /\ pc = "serve"
    /\ draws = <<>> /\ rolling_window = 0
    /\ seed = None /\ lang = "zh" /\ count = 0
    /\ engine = NoEngine /\ rng = 0 /\ attempts = 0
    /\ recommendations = <<>> /\ selection = {} /\ pool = <<>>
    /\ result = NoResult /\ raised = "none"
    /\ BuildIdle
    /\ AiIdle
    /\ SiteIdle

\* value = cache.get_or_set(name, params, factory); `result` keeps the key, the
\* value returned and the number of calls of the factory
CacheCall ==
    /\ mode = "cache"
    /\ \E name \in CacheNames, params \in ParamDicts, value \in FactoryValues :
         LET got == get_or_set(cache, name, params, value)
         IN  /\ result' = [key |-> build_key(name, params), value |-> got.value,
                           factory_calls |-> got.factory_calls]
             /\ cache' = got.cache
    /\ UNCHANGED <<mode, pc, draws, rolling_window, seed, lang, count, engine, rng, attempts,
                   recommendations, selection, pool, raised, buildVars, aiVars,
                   game, table, snapshots, requests, ingest>>

\* The timeout of an entry passes (ttl, or TIMEOUT of settings.CACHES): the
\* backend drops the entry
Expire ==
    /\ mode = "cache"
    /\ \E e \in cache : cache' = cache \ {e}
    /\ UNCHANGED <<serviceVars, game, table, snapshots, requests, ingest>>

NextCache == CacheCall \/ Expire

SpecCache == InitCache /\ [][NextCache]_vars

-----------------------------------------------------------------------------
(* Properties *)

Distinct(s) == \A i, j \in DOMAIN s : i # j => s[i] # s[j]

ValidTicket(numbers) ==
    /\ Len(numbers) = MainCount
    /\ Distinct(numbers)
    /\ Range(numbers) \subseteq Numbers

\* C1: every Recommendation of RecommendationEngine.generate, in the list it is
\* building and in the list it returns, has exactly 7 numbers, pairwise distinct,
\* all in 1..50
C1_GeneratedTicketsValid ==
    mode = "generate" =>
        /\ \A i \in DOMAIN recommendations : ValidTicket(recommendations[i].numbers)
        /\ (pc = "done" /\ raised = "none") =>
               \A i \in DOMAIN result : ValidTicket(result[i].numbers)

\* generate(2) on a non-empty history has returned two recommendations
C1_Witness ==
    /\ mode = "generate" /\ pc = "done" /\ raised = "none"
    /\ draws # <<>> /\ count = 2 /\ Len(result) = 2

Shared(a, b) == Cardinality(Range(a.numbers) \cap Range(b.numbers))
United(a, b) == Cardinality(Range(a.numbers) \cup Range(b.numbers))

\* C2: in every state of generate, so after every iteration of its loop, any two
\* different accepted recommendations have |A & B| / |A | B| <= 0.4 and share at
\* most 4 numbers
C2_BatchDiverse ==
    mode = "generate" =>
        \A i, j \in DOMAIN recommendations :
            i # j => /\ 10 * Shared(recommendations[i], recommendations[j])
                          <= MaxSimilarityTenths * United(recommendations[i], recommendations[j])
                     /\ Shared(recommendations[i], recommendations[j]) <= 4

\* Two accepted recommendations that share numbers, after a candidate was
\* rejected by the filter
C2_Witness ==
    /\ mode = "generate" /\ pc = "done"
    /\ Len(result) = 2
    /\ Shared(result[1], result[2]) >= 3
    /\ attempts > 2

AnalysisDone == mode = "analysis" /\ pc = "done" /\ raised = "none"

\* The draws are valid: 7 distinct main numbers in 1..50
ValidDraws(ds) == \A i \in DOMAIN ds : ValidTicket(ds[i].numbers)

\* C5: for valid draws the counts of main_frequency sum to total_draws * 7
C5_FrequencySum ==
    (AnalysisDone /\ ValidDraws(draws)) =>
        SumSeq([n \in Numbers |-> result.main_frequency[n].count])
            = result.meta.total_draws * MainCount

\* An analysis of two draws: the counts sum to 14
C5_Witness ==
    /\ AnalysisDone /\ Len(draws) = 2
    /\ SumSeq([n \in Numbers |-> result.main_frequency[n].count]) = 2 * MainCount

\* Positions (from 1) of the draws whose main numbers contain n
Containing(ds, n) == {i \in DOMAIN ds : n \in Range(ds[i].numbers)}

NewestFirst(ds) == \A i, j \in DOMAIN ds : i < j => ds[i].date > ds[j].date

\* C6: for draws given newest-first the omission of n is the index (0 = most
\* recent) of the first draw that contains n, and the number of draws when no
\* draw contains n
C6_Omission ==
    (AnalysisDone /\ NewestFirst(draws)) =>
        \A n \in Numbers :
            /\ result.omissions[n].number = n
            /\ result.omissions[n].omission =
                   IF Containing(draws, n) = {} THEN Len(draws)
                   ELSE Min(Containing(draws, n)) - 1

\* Two draws newest-first: a number in both (omission 0), a number only in the
\* second-newest (omission 1) and a number in none (omission 2)
C6_Witness ==
    /\ AnalysisDone /\ Len(draws) = 2 /\ NewestFirst(draws)
    /\ \E n \in Numbers : Containing(draws, n) = {1, 2} /\ result.omissions[n].omission = 0
    /\ \E n \in Numbers : Containing(draws, n) = {2} /\ result.omissions[n].omission = 1
    /\ \E n \in Numbers : Containing(draws, n) = {} /\ result.omissions[n].omission = 2

\* C7: the main_frequency count of n is the number of input draws whose main
\* numbers contain n (the bonus is not counted), and meta.total_draws is the
\* number of input draws
C7_FrequencyCounts ==
    AnalysisDone =>
        /\ result.meta.total_draws = Len(draws)
        /\ \A n \in Numbers :
               /\ result.main_frequency[n].number = n
               /\ result.main_frequency[n].count = Cardinality(Containing(draws, n))

\* Two draws with a number in both (count 2) and a bonus that is in no draw's
\* main numbers (count 0)
C7_Witness ==
    /\ AnalysisDone /\ Len(draws) = 2
    /\ \E n \in Numbers : result.main_frequency[n].count = 2
    /\ \E i \in DOMAIN draws : result.main_frequency[draws[i].bonus].count = 0


BuildDone == mode = "build" /\ pc = "done" /\ raised = "none"

\* C3: the second of two calls of build_recommendations with the same draws, the
\* same seed (not None) and the same lang returns the list the first call
\* returned: same algorithms in the same order, same numbers, metrics and texts
C3_Deterministic ==
    (BuildDone /\ call = 2 /\ seed # None) => result = first_result

\* A second call with a seed on a non-empty history has returned the nine
\* recommendations of the first call
C3_Witness ==
    /\ BuildDone /\ call = 2 /\ seed # None
    /\ Len(result) = 9 /\ result = first_result

\* The algorithm of every strategy of build_recommendations, in its order
Strategies ==
    << "BalancedHotColdMix",
       "PureFrequencyTop7",
       "BayesianSmoothedNumberProbabilities_Dirichlet",
       "SingleNumberSignificanceTest_BinomialZ",
       "WindowedBayesianHotness_EWMA",
       "FeatureDistributionTest_MonteCarlo",
       "AntiCrowdNumberSelection_PopularityPenalty",
       "ChangePointDetection_NumberFrequencies",
       "WeightedSamplingWithoutReplacement_TicketGenerator" >>

AlgorithmsOf(recs) == [i \in DOMAIN recs |-> recs[i].algorithm]

PredictDone == mode = "predict" /\ pc = "done"

\* C8: predict_next_draw_probabilities with zero draws or one draw does not
\* raise and does not train (no model is built); it returns probability 0 for
\* every number 1..max_number, an empty top_numbers and meta.samples = 0
C8_DegenerateDefaults ==
    (mode = "predict" /\ Len(draws) < 2) =>
        /\ raised = "none"
        /\ pc \in {"call", "done"}
        /\ net = NoNet /\ epoch = 0 /\ pair_idx = 0
        /\ pc = "call" => ENABLED PredictDegenerate
        /\ pc = "done" =>
            /\ DOMAIN result.probabilities = 1..MaxNumber
            /\ \A n \in 1..MaxNumber :
                   result.probabilities[n] = [number |-> n, probability |-> 0]
            /\ result.top_numbers = <<>>
            /\ result.meta.samples = 0

\* The call with exactly one draw has returned the defaults
C8_Witness ==
    /\ PredictDone /\ Len(draws) = 1 /\ raised = "none"
    /\ result.top_numbers = <<>> /\ result.meta.samples = 0
    /\ result.meta.draws_used = 1
    /\ \A n \in 1..MaxNumber : result.probabilities[n].probability = 0

\* C9: with an empty draw set no entry point raises: compute_analysis([])
\* returns total_draws 0, every frequency count 0, latest_draw None, empty sum
\* and span histograms and an empty rolling series; build_recommendations([])
\* returns []; RecommendationEngine([]) is constructed and generate runs to its
\* return
C9_EmptyDrawSet ==
    draws = <<>> =>
        /\ raised = "none"
        /\ (mode = "analysis" /\ pc = "call") => ENABLED ComputeAnalysis
        /\ (mode = "analysis" /\ pc = "done") =>
            /\ result.meta.total_draws = 0
            /\ result.meta.latest_draw = <<>>
            /\ \A n \in Numbers : /\ result.main_frequency[n].count = 0
                                  /\ result.bonus_frequency[n].count = 0
            /\ result.sum_distribution = <<>>
            /\ result.span_distribution = <<>>
            /\ result.rolling_series = [labels |-> <<>>, series |-> <<>>]
        /\ (mode = "build" /\ pc = "call") => ENABLED BuildEmpty
        /\ (mode = "build" /\ pc = "done") => result = <<>>
        /\ (mode = "generate" /\ pc # "done") => ENABLED NextGenerate
        /\ (mode = "generate" /\ pc # "new") => engine # NoEngine
        /\ (mode = "generate" /\ pc = "done") => Len(result) <= count

\* generate(count) of an engine without draws has returned count recommendations
C9_Witness ==
    /\ draws = <<>> /\ mode = "generate" /\ pc = "done" /\ raised = "none"
    /\ count > 0 /\ Len(result) = count

\* C10: generate(count) terminates, also when no candidate passes: it builds at
\* most count * 300 candidates, starts no candidate once count are accepted,
\* returns at most count recommendations, and every candidate construction
\* (the loop that fills the ticket from the pool) ends
C10_Terminates ==
    /\ [](mode = "generate" =>
            /\ attempts <= count * AttemptsPerCount
            /\ Len(recommendations) <= count
            /\ (pc = "loop" /\ Len(recommendations) >= count) => ~ENABLED StartAttempt
            /\ pc = "done" => (raised = "none" => Len(result) <= count))
    /\ <>(pc = "done")
    /\ (pc = "fill") ~> (pc = "loop")

\* The cap ended the loop: every one of the count * 300 candidates of a history
\* was rejected and generate has returned fewer than count recommendations
C10_Witness ==
    /\ mode = "generate" /\ pc = "done" /\ raised = "none"
    /\ count > 0 /\ attempts = count * AttemptsPerCount
    /\ Len(result) < count

ViewsDone(w) == mode = "views" /\ requests[w].pc = "done"

\* The stored snapshots of a model with a key
StoredFor(model, k) == {i \in DOMAIN snapshots : snapshots[i].model = model /\ snapshots[i].key = k}

\* C11: after any interleaving of concurrent requests to recommendations and api_ai, the
\* store holds at most one RecommendationSnapshot and at most one AiPredictionSnapshot per
\* key (game, base_draw_date, window, seed)
C11_OneSnapshotPerKey ==
    \A i, j \in DOMAIN snapshots :
        snapshots[i].model = snapshots[j].model /\ snapshots[i].key = snapshots[j].key => i = j

\* Two requests raced for one key: both inserted, the store kept one row
C11_Witness ==
    /\ mode = "views"
    /\ \E w \in Workers : requests[w].status = "IntegrityError"
    /\ \E v \in Workers : requests[v].computed /\ requests[v].status = "ok"
                          /\ StoredFor(SnapshotModel(requests[v].view), KeyOf(requests[v])) # {}

\* C12: a request whose insert loses the race for a key completes successfully and serves
\* the stored snapshot
C12_LoserServed ==
    \A w \in DOMAIN requests :
        ViewsDone(w) /\ requests[w].computed /\ requests[w].base # None =>
            /\ requests[w].status = "ok"
            /\ \E i \in StoredFor(SnapshotModel(requests[w].view), KeyOf(requests[w])) :
                   requests[w].response = snapshots[i].payload

\* C13: snapshots are write-once: a request that finds a snapshot for its key serves the
\* stored payload and computes nothing, a lookup finds the snapshot whenever one is stored
\* for the key, and no stored row is ever changed or removed
C13_WriteOnce ==
    /\ [](\A w \in DOMAIN requests :
            requests[w].hit =>
                /\ ~requests[w].computed
                /\ \E i \in StoredFor(SnapshotModel(requests[w].view), KeyOf(requests[w])) :
                       /\ requests[w].payload = snapshots[i].payload
                       /\ requests[w].pc = "done" => requests[w].response = snapshots[i].payload)
    /\ [][\A w \in DOMAIN requests :
            /\ requests[w].pc = "lookup"
            /\ requests'[w].pc # "lookup"
            /\ StoredFor(SnapshotModel(requests[w].view), KeyOf(requests[w])) # {}
            => requests'[w].hit]_vars
    /\ [][\A i \in DOMAIN snapshots : i \in DOMAIN snapshots' /\ snapshots'[i] = snapshots[i]]_vars

\* A later request was served the stored payload another request had computed
C13_Witness ==
    /\ mode = "views"
    /\ \E w, v \in Workers :
         /\ w # v
         /\ requests[w].pc = "done" /\ requests[w].hit /\ requests[w].status = "ok"
         /\ requests[v].computed /\ requests[v].status = "ok"
         /\ requests[v].view = requests[w].view /\ KeyOf(requests[v]) = KeyOf(requests[w])
         /\ requests[w].response = requests[v].payload

IsAscending(s) == \A i \in 1..(Len(s) - 1) : s[i] < s[i + 1]

\* C14: every Recommendation build_recommendations returns, whichever strategy produced it,
\* has a numbers list of exactly main_count elements, in ascending order, without
\* duplicates and within [1, max_number]
C14_NumbersSorted ==
    BuildDone => \A i \in DOMAIN result :
                     ValidTicket(result[i].numbers) /\ IsAscending(result[i].numbers)

\* The same draws, the newest first
NewestFirstOf(ds) == [i \in DOMAIN ds |-> SortedByDate(ds)[Len(ds) + 1 - i]]

\* C15: compute_analysis returns, for every order of the same draws, the omissions, the
\* cold numbers and the meta.latest_draw it returns for the newest-first order
C15_OrderIndependent ==
    AnalysisDone =>
        LET sorted == compute_analysis(NewestFirstOf(draws), rolling_window)
        IN  /\ result.omissions = sorted.omissions
            /\ result.cold_numbers = sorted.cold_numbers
            /\ result.meta.latest_draw = sorted.meta.latest_draw

\* C16: for a game configured with main_count = m and max_number = M every recommendation
\* has exactly m numbers, all in [1, M], and the frequency and omission tables of
\* compute_analysis list exactly the numbers 1..M
C16_FollowsGame ==
    /\ AnalysisDone =>
           /\ {result.main_frequency[i].number : i \in DOMAIN result.main_frequency}
                  = 1..game.max_number
           /\ {result.omissions[i].number : i \in DOMAIN result.omissions} = 1..game.max_number
    /\ (mode = "generate" /\ pc = "done" /\ raised = "none") =>
           \A i \in DOMAIN result :
               /\ Len(result[i].numbers) = game.main_count
               /\ Range(result[i].numbers) \subseteq 1..game.max_number

GameOf(key) == CHOOSE g \in Games : g.key = key

\* The DrawRecord invariant of a game, for stored numbers and bonus
DrawInvariant(numbers, bonus, g) ==
    /\ Len(numbers) = g.main_count
    /\ IsAscending(numbers)
    /\ \A i \in DOMAIN numbers : numbers[i] \in 1..g.max_number
    /\ bonus \in 1..g.max_number
    /\ \A i \in DOMAIN numbers : numbers[i] # bonus

\* A scraped record delivers main_count distinct numbers in range and a bonus in range
\* that is none of them
RecordAdmissible(rec, g) ==
    /\ Cardinality({rec.numbers[i] : i \in DOMAIN rec.numbers}) = g.main_count
    /\ \A i \in DOMAIN rec.numbers : rec.numbers[i] \in 1..g.max_number
    /\ rec.bonus \in 1..g.max_number
    /\ \A i \in DOMAIN rec.numbers : rec.numbers[i] # rec.bonus

\* The row is the record, its numbers in ascending order
StoredFrom(row, rec, g) ==
    /\ row.game = g.key /\ row.date = rec.date /\ row.bonus = rec.bonus
    /\ {row.numbers[i] : i \in DOMAIN row.numbers} = {rec.numbers[i] : i \in DOMAIN rec.numbers}

\* C17: after any sequence of ingest_draws runs every stored Draw satisfies the DrawRecord
\* invariant of its game (main_count distinct main numbers in [1, max_number], ascending,
\* bonus in [1, max_number] and not a main number), and every row a run stores comes
\* from a scraped record that satisfies it: a violating record is never stored
C17_StoredDrawsValid ==
    /\ [](\A row \in table : DrawInvariant(row.numbers, row.bonus, GameOf(row.game)))
    /\ [][\A row \in table' \ table :
            \E i \in DOMAIN ingest'.records :
                /\ RecordAdmissible(ingest'.records[i], game')
                /\ StoredFrom(row, ingest'.records[i], game')]_vars

\* A run skipped a violating record and stored another, delivered out of order
C17_Witness ==
    /\ mode = "ingest"
    /\ ingest.status = "partial" /\ ingest.draws_added = 1
    /\ \E i \in DOMAIN ingest.records : ~RecordAdmissible(ingest.records[i], game)
    /\ \E i \in DOMAIN ingest.records :
         /\ ~IsAscending(ingest.records[i].numbers)
         /\ \E row \in table : StoredFrom(row, ingest.records[i], game)

\* The records a run processes: not older than since, one per date
Processed(tab, g, run) == Deduped(Since(run.records, SinceOf(tab, g.key, run.incremental)))

\* The record is admissible, its date is stored for the game and the stored draw differs
Conflicting(tab, rec, g) ==
    /\ RecordAdmissible(rec, g)
    /\ \E row \in tab : row.game = g.key /\ row.date = rec.date /\ ~StoredFrom(row, rec, g)

\* C18: there is at most one Draw per (game, date); no stored Draw is ever modified or
\* deleted; a run that meets an admissible record differing from the stored draw of its
\* date leaves that draw and ends 'partial'; no run fails on a stored date; and a run
\* that ingests the records of the run before it again adds 0 draws
C18_DrawsImmutable ==
    /\ [](\A a, b \in table : a.game = b.game /\ a.date = b.date => a = b)
    /\ [][table \subseteq table']_vars
    /\ [][ingest'.runs # ingest.runs /\ ingest'.raised # "ScrapeError" =>
            /\ ingest'.raised = "none"
            /\ \A processed \in {Processed(table, game', ingest')} :
                   (\E i \in DOMAIN processed : Conflicting(table, processed[i], game'))
                   => ingest'.status = "partial"
            /\ (/\ ingest.runs > 0 /\ ingest.raised = "none" /\ game' = game
                /\ ingest'.records = ingest.records
                /\ ingest'.incremental = ingest.incremental)
                => ingest'.draws_added = 0 /\ table' = table]_vars

\* The second run met a record that differs from the stored draw of its date
C18_Witness ==
    /\ mode = "ingest"
    /\ ingest.runs = 2 /\ ingest.status = "partial" /\ ingest.draws_added = 0
    /\ \E i \in DOMAIN ingest.records : Conflicting(table, ingest.records[i], game)

OddIn(numbers) == Cardinality({i \in DOMAIN numbers : numbers[i] % 2 = 1})
SmallIn(numbers) == Cardinality({i \in DOMAIN numbers : numbers[i] <= 25})
Among(numbers, list) == \E i \in DOMAIN numbers : \E j \in DOMAIN list : numbers[i] = list[j]

\* C19: every recommendation generate returns satisfies the acceptance constraints of its
\* engine: odd count within 2 of target_odd, small count within 2 of target_small, sum
\* within sum_range (bounds included), at least one hot and at least one cold number
C19_ConstraintsHold ==
    (mode = "generate" /\ pc = "done" /\ raised = "none") =>
        \A i \in DOMAIN result :
            LET numbers == result[i].numbers
            IN  /\ Abs(OddIn(numbers) - engine.target_odd) <= 2
                /\ Abs(SmallIn(numbers) - engine.target_small) <= 2
                /\ engine.sum_range[1] <= SumSeq(numbers)
                /\ SumSeq(numbers) <= engine.sum_range[2]
                /\ Among(numbers, engine.hot_numbers)
                /\ Among(numbers, engine.cold_numbers)

\* generate returned a recommendation after the filter had rejected candidates
C19_Witness ==
    /\ mode = "generate" /\ pc = "done" /\ raised = "none"
    /\ draws # <<>> /\ Len(result) > 0 /\ attempts > Len(result) + 1

\* C20: a RecommendationEngine initialised with no draws has hot numbers 1..10, cold
\* numbers 41..50, target odd count 3, target small count 3, sum range [60, 240] and no
\* common pairs
C20_EmptyDefaults ==
    (mode = "generate" /\ engine # NoEngine /\ draws = <<>>) =>
        /\ engine.hot_numbers = [i \in 1..10 |-> i]
        /\ engine.cold_numbers = [i \in 1..10 |-> 40 + i]
        /\ engine.target_odd = 3
        /\ engine.target_small = 3
        /\ engine.sum_range = <<60, 240>>
        /\ engine.common_pairs = <<>>

\* The initial states of the generators _seeded_random(seed, salt) derives from a
\* seed, one salt per strategy
SubSeeded(s) == {_seeded_random(s, salt) : salt \in DOMAIN Strategies}

\* C21: in build_recommendations every stochastic strategy reads from a random
\* source of its own, derived from the master seed by a sub-seed; no source is
\* consumed by two strategies. When the Monte-Carlo loop and the anti-crowd loop
\* begin, the generator they are about to read is therefore in the initial state
\* of a sub-seeded generator, not in a state another strategy has advanced
C21_OwnRandomSource ==
    (mode = "build" /\ pc \in {"feature", "anticrowd"} /\ trial = 0 /\ seed # None) =>
        best.rng \in SubSeeded(seed)

\* The strategies of build_recommendations specified without randomness
Unseeded ==
    { "PureFrequencyTop7",
      "SingleNumberSignificanceTest_BinomialZ",
      "WindowedBayesianHotness_EWMA",
      "ChangePointDetection_NumberFrequencies" }

\* The numbers of the recommendations of the strategy `algorithm` in a list
NumbersFor(recs, algorithm) ==
    {recs[i].numbers : i \in {j \in DOMAIN recs : recs[j].algorithm = algorithm}}

\* C22: the strategies specified without randomness do not depend on the seed:
\* two calls of build_recommendations with the same draws and different seeds
\* return the same numbers for PureFrequencyTop7, the binomial z-score, the EWMA
\* hotness and the change-point strategies
C22_SeedIndependent ==
    (BuildDone /\ call = 3) =>
        \A algorithm \in Unseeded :
            /\ NumbersFor(result, algorithm) = NumbersFor(first_result, algorithm)
            /\ draws # <<>> => Cardinality(NumbersFor(result, algorithm)) = 1

\* Two calls with different seeds have returned lists that differ in a seeded
\* strategy and agree on the four strategies without randomness
C22_Witness ==
    /\ BuildDone /\ call = 3 /\ seed # None /\ Len(draws) > 1
    /\ result # first_result
    /\ NumbersFor(result, "WeightedSamplingWithoutReplacement_TicketGenerator")
         # NumbersFor(first_result, "WeightedSamplingWithoutReplacement_TicketGenerator")
    /\ \A algorithm \in Unseeded :
          NumbersFor(result, algorithm) = NumbersFor(first_result, algorithm)

\* The fields of a Recommendation that are not texts
Figures(r) ==
    [algorithm |-> r.algorithm, numbers |-> r.numbers,
     odd_count |-> r.odd_count, even_count |-> r.even_count,
     small_count |-> r.small_count, large_count |-> r.large_count,
     total_sum |-> r.total_sum, hot_count |-> r.hot_count,
     cold_count |-> r.cold_count, pair_boost |-> r.pair_boost]

FiguresOf(recs) == [i \in DOMAIN recs |-> Figures(recs[i])]

\* C23: the language only selects texts: for the same draws and seed,
\* build_recommendations with lang = 'en' and with lang = 'zh' return the same
\* algorithms in the same order with the same numbers and the same metrics
C23_LangSelectsTexts ==
    (BuildDone /\ call = 4) => FiguresOf(result) = FiguresOf(first_result)

\* The same history and seed have been served in both languages: nine
\* recommendations with equal figures and different texts
C23_Witness ==
    /\ BuildDone /\ call = 4 /\ Len(result) = 9
    /\ FiguresOf(result) = FiguresOf(first_result)
    /\ \A i \in DOMAIN result : result[i].algorithm_label # first_result[i].algorithm_label

\* The metrics of the recommendation r agree with its numbers, for the engine e
\* that built it and a game of main_count numbers
MetricsConsistent(e, r, main_count) ==
    /\ r.odd_count + r.even_count = main_count
    /\ r.small_count + r.large_count = main_count
    /\ r.odd_count = Cardinality({i \in DOMAIN r.numbers : r.numbers[i] % 2 = 1})
    /\ r.small_count = Cardinality({i \in DOMAIN r.numbers : r.numbers[i] <= SmallThreshold})
    /\ r.total_sum = SumOf(r.numbers)
    /\ r.hot_count = Cardinality({i \in DOMAIN r.numbers : r.numbers[i] \in Range(e.hot_numbers)})
    /\ r.cold_count = Cardinality({i \in DOMAIN r.numbers : r.numbers[i] \in Range(e.cold_numbers)})
    /\ r.pair_boost = Cardinality({i \in DOMAIN e.common_pairs :
                                     Range(e.common_pairs[i]) \subseteq Range(r.numbers)})

\* C24: the metrics of every Recommendation are consistent with its numbers:
\* odd_count + even_count = main_count and small_count + large_count = main_count
\* of the game, total_sum is the sum of the numbers, hot_count and cold_count
\* count its numbers in the engine's hot and cold sets, and pair_boost counts the
\* engine's top pairs that lie within the ticket
C24_MetricsConsistent ==
    (mode \in {"generate", "build"} /\ engine # NoEngine) =>
        \A i \in DOMAIN recommendations :
            MetricsConsistent(engine, recommendations[i], game.main_count)

\* The position in ds of the draw with the idx-th earliest date (idx from 1)
ChronoIndex(ds, idx) ==
    CHOOSE j \in DOMAIN ds : Cardinality({k \in DOMAIN ds : ds[k].date < ds[j].date}) = idx - 1

\* The number of draws that contain num among the last w draws ending at the
\* chronological position idx
InWindow(ds, num, idx, w) ==
    Cardinality({p \in Maximum(1, idx - w + 1)..idx : num \in Range(ds[ChronoIndex(ds, p)].numbers)})

\* C25: the prefix-sum rolling series agrees with the direct definition: for each
\* of the at most 5 most frequent numbers and each chronological position, the
\* reported value multiplied by the window w is the number of draws among the
\* last w draws ending at that position that contain the number; the labels are
\* the draw dates in ascending order, one per draw
C25_RollingDirect ==
    AnalysisDone =>
        LET rolling == result.rolling_series
        IN  /\ Len(rolling.labels) = Len(draws)
            /\ \A idx \in DOMAIN rolling.labels :
                   rolling.labels[idx] = IsoFormat(draws[ChronoIndex(draws, idx)].date)
            /\ Len(rolling.series) <= RollingTop
            /\ \A i \in DOMAIN rolling.series :
                 /\ \A n \in Numbers :
                        (\A k \in DOMAIN rolling.series : rolling.series[k].number # n) =>
                            Cardinality(Containing(draws, n))
                                <= Cardinality(Containing(draws, rolling.series[i].number))
                 /\ Len(rolling.series[i].values) = Len(draws)
                 /\ \A idx \in DOMAIN draws :
                        /\ rolling.series[i].values[idx][2] = rolling_window
                        /\ rolling.series[i].values[idx][1] =
                               InWindow(draws, rolling.series[i].number, idx, rolling_window)

\* Two draws and a window of one draw: a top number of the older draw that the
\* newer draw lacks has the values 1 and 0, so the prefix before the window was
\* subtracted
C25_Witness ==
    /\ AnalysisDone /\ Len(draws) = 2 /\ rolling_window = 1
    /\ \E i \in DOMAIN result.rolling_series.series :
          /\ result.rolling_series.series[i].values = << <<1, 1>>, <<0, 1>> >>
          /\ Cardinality(Containing(draws, result.rolling_series.series[i].number)) = 1

\* C26: compute_analysis, RecommendationEngine (construction and generate) and
\* build_recommendations leave their input unchanged: no step of a call changes
\* the list, the order of its draws, or the numbers, bonus or date of a draw
C26_InputUnchanged ==
    [][(mode \in {"analysis", "generate", "build"}) => (draws' = draws)]_vars

\* Calls have returned on a list that is not in chronological order, which the
\* rolling series and the strategies had to sort: the list is still newest-first
C26_Witness ==
    /\ pc = "done" /\ raised = "none" /\ Len(draws) > 1 /\ NewestFirst(draws)
    /\ \/ mode = "analysis" /\ result.rolling_series.labels[1] = IsoFormat(draws[Len(draws)].date)
       \/ mode = "build" /\ Len(result) = 9

C28_GetOrSet ==
    /\ [](mode = "cache" => \A e1, e2 \in cache : e1.key = e2.key => e1 = e2)
    /\ [][(mode = "cache" /\ result' # result) =>
            IF \E e \in cache : e.key = result'.key /\ e.value # NoValue
            THEN /\ result'.factory_calls = 0
                 /\ [key |-> result'.key, value |-> result'.value] \in cache
                 /\ cache' = cache
            ELSE /\ result'.factory_calls = 1
                 /\ cache' = {e \in cache : e.key # result'.key}
                                 \cup {[key |-> result'.key, value |-> result'.value]}]_vars
    /\ [][mode = "cache" =>
            \A e \in cache : e.value # NoValue =>
                \/ e \in cache'
                \/ \A e2 \in cache' : e2.key # e.key]_vars

\* A call has been served from the cache while another key is cached too: the
\* factory was not called and the value returned is the one stored
C28_Witness ==
    /\ mode = "cache" /\ result # NoResult
    /\ result.factory_calls = 0 /\ result.value # NoValue
    /\ [key |-> result.key, value |-> result.value] \in cache
    /\ \E e \in cache : e.key # result.key /\ e.value = NoValue

\* The dates of the draws of the game in the Draw table
DrawDates(tab, key) == {row.date : row \in {r \in tab : r.game = key}}

TotalCount(dist) == SumOf([i \in DOMAIN dist |-> dist[i].count])

\* The bin starts of a histogram are the consecutive multiples of bin_size from
\* the bin of the least value to the bin of the greatest value
BinsSpan(hist, values, bin_size) ==
    LET first == (Min(values) \div bin_size) * bin_size
        last == (Max(values) \div bin_size) * bin_size
    IN  /\ Len(hist) = (last - first) \div bin_size + 1
        /\ \A i \in DOMAIN hist : hist[i].bin_start = first + (i - 1) * bin_size

\* C30: every draw is counted in exactly one listed bucket of each
\* distribution: for every non-empty list of valid draws the counts of
\* odd_even_distribution, size_distribution, sum_distribution and
\* span_distribution each sum to total_draws, the histogram bin starts are
\* consecutive multiples of the bin size from the bin of the minimum observed
\* value to the bin of the maximum, and consecutive_ratio.count <= total_draws
C30_Distributions ==
    (AnalysisDone /\ draws # <<>> /\ ValidDraws(draws)) =>
        LET total_draws == result.meta.total_draws
            sums == {SumOf(draws[i].numbers) : i \in DOMAIN draws}
            spans == {Max(Range(draws[i].numbers)) - Min(Range(draws[i].numbers)) : i \in DOMAIN draws}
        IN  /\ total_draws = Len(draws)
            /\ TotalCount(result.odd_even_distribution) = total_draws
            /\ TotalCount(result.size_distribution) = total_draws
            /\ TotalCount(result.sum_distribution) = total_draws
            /\ TotalCount(result.span_distribution) = total_draws
            /\ BinsSpan(result.sum_distribution, sums, SumBinSize)
            /\ BinsSpan(result.span_distribution, spans, SpanBinSize)
            /\ result.consecutive_ratio.count <= total_draws

====
